---------------------------- MODULE Spec2Model ----------------------------
(***************************************************************************)
(* Model of the speech-playback engine of novel-reader: the useTTS hook    *)
(* (src/unnamed/part_008), the wake-lock module (src/src/lib/keep-awake.ts)*)
(* and the foreground-service / native TTS bridge                          *)
(* (src/src/lib/foreground-service.ts).                                    *)
(*                                                                         *)
(* JavaScript runs one task at a time: an action of this module is one run *)
(* of the event loop, from the event that starts it (an API call of the    *)
(* hosting UI, the settlement of a platform promise, a speech event, an    *)
(* animation frame) to the next suspension at a platform promise.  An      *)
(* await of an already settled promise does not suspend across tasks and   *)
(* is part of the same action.                                             *)
(*                                                                         *)
(* Texts are abstract: a text is its length and the lengths of the parts   *)
(* splitIntoSentences returns for it; each part has a word at offset 0 and *)
(* (when longer than one character) a word at its last character.          *)
(***************************************************************************)
EXTENDS Integers, Sequences, FiniteSets, TLC

VARIABLES
    useNative,        \* useNativeRef.current
    issued,           \* number of API calls made so far
    lastSid,          \* id of the last speak/speakFromIndex call issued
    liveSid,          \* id of the call that created the current session
    calls,            \* API calls suspended at a platform promise
    generationRef, speakingRef, pausedRef, isSpeaking, isPaused,
    progress, activeCharIndex, textRef, chunksRef, chunkOffsetsRef,
    currentChunkRef, boundaryFiredRef,
    rafRef,           \* rafRef.current is non-null
    rafLoop,          \* the stepper loop whose pending frame rafRef names
    loops,            \* stepper loops with a pending frame rafRef lost
    nativeCalls,      \* nativeSpeak calls in flight
    synthQueue,       \* utterances queued in speechSynthesis
    synthPaused,      \* speechSynthesis.paused
    isRunning,        \* foreground-service.ts isRunning
    isKeptAwake,      \* keep-awake.ts isKeptAwake
    screenWakeLock,   \* keep-awake.ts screenWakeLock is non-null
    silentAudioActive,
    wakeLockBalance,  \* platform acquire calls minus platform release calls
    detached,         \* platform releases started with void, still pending
    onEndLog,         \* invocations of onEndCallbackRef.current, by session
    toastLog,         \* toast.error calls: what was shown, and for which call
    hasSpeechSynthesis, \* typeof speechSynthesis !== 'undefined'
    displayTexts,     \* the chapter texts the page shows during the run
    warmedAudioEl,    \* keep-awake.ts warmedAudioEl is non-null
    openInstallCalls, \* calls of plugin.openInstall()
    adapterFailures,  \* adapter calls that ended without audio so far
    lastSettled,      \* the nativeSpeak call that settled last, as it settled
    chunkStartTimeRef, \* the segment whose start set chunkStartTimeRef.current
    calibrated,       \* the run of the calibration block the last task made
    inputText,        \* splitIntoSentences: its argument, a sequence of characters
    maxChunk,         \* splitIntoSentences: getMaxChunkChars()
    merged,           \* splitIntoSentences: the segments it returned
    startCharIndex,   \* speakFromIndex on its own: the start it was given
    offsets,          \* speakFromIndex on its own: the offsets it computed
    preBufferCache,   \* keep-awake.ts preBufferCache, in insertion order
    prefetches,       \* preBufferChunk calls suspended at fetchTTSAudio
    prefetchCalls,    \* preBufferChunk calls made so far
    cacheClock,       \* insertions into preBufferCache so far
    selectedCloudVoice, \* keep-awake.ts selectedCloudVoice
    lastCacheOp,      \* the last operation on preBufferCache, for the properties
    voices,           \* useTTS voices state
    selectedVoice,    \* useTTS selectedVoice state
    voiceLoad,        \* how far the voice-loading effect has run
    webVoices,        \* what speechSynthesis.getVoices() returns now
    webSpeechWaits,   \* tryWebSpeech calls, by the state of their voice wait
    onvoiceschanged,  \* the call whose handler speechSynthesis.onvoiceschanged is
    lastEvent         \* what the last task was, for the properties

vars == <<useNative, issued, lastSid, liveSid, calls, generationRef,
          speakingRef, pausedRef, isSpeaking, isPaused, progress,
          activeCharIndex, textRef, chunksRef, chunkOffsetsRef,
          currentChunkRef, boundaryFiredRef, rafRef, rafLoop, loops,
          nativeCalls, synthQueue, synthPaused, isRunning, isKeptAwake,
          screenWakeLock, silentAudioActive, wakeLockBalance, detached,
          onEndLog, toastLog, hasSpeechSynthesis, displayTexts, warmedAudioEl,
          openInstallCalls, adapterFailures, lastSettled, chunkStartTimeRef,
          calibrated, inputText, maxChunk, merged,
          startCharIndex, offsets,
          preBufferCache, prefetches, prefetchCalls, cacheClock,
          selectedCloudVoice, lastCacheOp, voices, selectedVoice, voiceLoad,
          webVoices, webSpeechWaits, onvoiceschanged, lastEvent>>

\* the state of the pre-fetch cache of the cloud backend
cacheVars == <<preBufferCache, prefetches, prefetchCalls, cacheClock,
               selectedCloudVoice, lastCacheOp>>

\* the state of the voice-loading effect
voiceVars == <<voices, selectedVoice, voiceLoad, webVoices, webSpeechWaits,
               onvoiceschanged>>

\* the state of the controller, its adapters and its resources
hookVars == <<useNative, issued, lastSid, liveSid, calls, generationRef,
              speakingRef, pausedRef, isSpeaking, isPaused, progress,
              activeCharIndex, textRef, chunksRef, chunkOffsetsRef,
              currentChunkRef, boundaryFiredRef, rafRef, rafLoop, loops,
              nativeCalls, synthQueue, synthPaused, isRunning, isKeptAwake,
              screenWakeLock, silentAudioActive, wakeLockBalance, detached,
              onEndLog, toastLog, hasSpeechSynthesis, displayTexts,
              warmedAudioEl, openInstallCalls, adapterFailures, lastSettled,
              chunkStartTimeRef, calibrated>>

\* the state of the chunker applied on its own
chunkerVars == <<inputText, maxChunk, merged, startCharIndex, offsets>>

(***************************************************************************)
(* Bounds                                                                  *)
(***************************************************************************)
MaxCalls == 3

MaxTextLen == 5
MaxSegmentLimit == 3
\* characters of the text of the one-segment scenario
ScenarioLength == 250
\* adapter calls that end without audio
MaxAdapterFailures == 3
\* nativeSpeak calls that are past their first adapter call at the same time
MaxFailingCalls == 1

(***************************************************************************)
(* splitIntoSentences on texts as sequences of characters                  *)
(***************************************************************************)
MAX_CHUNK_WEB == 80
MAX_CHUNK_CLOUD == 4000

\* the characters the texts are made of: a letter, a space, a sentence
\* terminator, a comma
Chars == {"a", " ", ".", ","}

\* [.!?\n] of the regex
Terminators == {".", "!", "?", "\n"}

\* \s of the regex, and what trim() removes
Whitespace == {" ", "\t", "\n", "\r"}

Min(set) == CHOOSE x \in set : \A y \in set : x <= y
Max(set) == CHOOSE x \in set : \A y \in set : x >= y

\* the first position from i on whose character is in the set; Len + 1 if none
FirstIn(text, i, set) ==
    LET J == {j \in i..Len(text) : text[j] \in set}
    IN  IF J = {} THEN Len(text) + 1 ELSE Min(J)

\* the first position from i on whose character is not in the set
FirstNotIn(text, i, set) ==
    LET J == {j \in i..Len(text) : text[j] \notin set}
    IN  IF J = {} THEN Len(text) + 1 ELSE Min(J)

\* text.slice(from) with from counted from 0
slice(text, from) == SubSeq(text, from + 1, Len(text))

\* text.trim() is not empty
trim(text) == \E j \in 1..Len(text) : text[j] \notin Whitespace

\* the loop of regex.exec with /[^.!?\n]+[.!?\n]+\s*/g from position from
\* (counted from 1): the matches, and regex.lastIndex after the last one
RECURSIVE regexExec(_, _)
regexExec(text, from) ==
    LET p == FirstNotIn(text, from, Terminators)
        t == FirstIn(text, p, Terminators)
    IN  IF t > Len(text) THEN [parts |-> <<>>, lastIndex |-> from - 1]
        ELSE LET e == FirstNotIn(text, t, Terminators)
                 w == FirstNotIn(text, e, Whitespace)
                 rest == regexExec(text, w)
             IN  [parts |-> <<SubSeq(text, p, w - 1)>> \o rest.parts,
                  lastIndex |-> rest.lastIndex]

\* str.lastIndexOf(needle, fromIndex), counted from 0; -1 when not found
lastIndexOf(str, needle, fromIndex) ==
    LET I == {i \in 0..fromIndex :
                 /\ i + Len(needle) <= Len(str)
                 /\ SubSeq(str, i + 1, i + Len(needle)) = needle}
    IN  IF I = {} THEN -1 ELSE Max(I)

\* where the while loop cuts a part longer than the limit
splitAt(remaining, limit) ==
    LET a == lastIndexOf(remaining, <<".", " ">>, limit)
        b == IF a <= 0 THEN lastIndexOf(remaining, <<",", " ">>, limit) ELSE a
        c == IF b <= 0 THEN lastIndexOf(remaining, <<" ">>, limit) ELSE b
    IN  IF c <= 0 THEN limit ELSE c + 1

\* the while loop over a part longer than the limit: the pieces pushed, and
\* what is left for the buffer
RECURSIVE splitLong(_, _)
splitLong(remaining, limit) ==
    IF Len(remaining) <= limit THEN [pieces |-> <<>>, buffer |-> remaining]
    ELSE LET at == splitAt(remaining, limit)
             rest == splitLong(slice(remaining, at), limit)
         IN  [pieces |-> <<SubSeq(remaining, 1, at)>> \o rest.pieces,
              buffer |-> rest.buffer]

\* the for loop that merges the parts; buffer is its variable
RECURSIVE mergeParts(_, _, _)
mergeParts(parts, buffer, limit) ==
    IF parts = <<>> THEN (IF buffer # <<>> THEN <<buffer>> ELSE <<>>)
    ELSE LET part == Head(parts)
         IN  IF Len(buffer) + Len(part) <= limit
             THEN mergeParts(Tail(parts), buffer \o part, limit)
             ELSE LET pushed == IF buffer # <<>> THEN <<buffer>> ELSE <<>>
                  IN  IF Len(part) > limit
                      THEN LET long == splitLong(part, limit)
                           IN  pushed \o long.pieces
                                 \o mergeParts(Tail(parts), long.buffer, limit)
                      ELSE pushed \o mergeParts(Tail(parts), part, limit)

\* splitIntoSentences(text) under getMaxChunkChars() = limit
SplitIntoSentences(text, limit) ==
    LET found == regexExec(text, 1)
        remainder == slice(text, found.lastIndex)
        parts == IF found.lastIndex < Len(text) /\ trim(remainder)
                 THEN Append(found.parts, remainder)
                 ELSE found.parts
    IN  IF parts = <<>> /\ trim(text) THEN <<text>>
        ELSE mergeParts(parts, <<>>, limit)

\* the texts of at most n characters
TextsUpTo(n) == UNION {[1..k -> Chars] : k \in 0..n}

\* the same limit on both platforms
getMaxChunkCharsWebEverywhere(native) == MAX_CHUNK_WEB

getMaxChunkChars(native) == IF native THEN MAX_CHUNK_CLOUD ELSE MAX_CHUNK_WEB

\* texts of ScenarioLength characters: sentences of ten characters, and one
\* run of letters with no break in it
Sentence == <<"a", "a", " ", "a", ",", " ", "a", "a", ".", " ">>

SentencesText == [i \in 1..ScenarioLength |-> Sentence[((i - 1) % Len(Sentence)) + 1]]

RunText == [i \in 1..ScenarioLength |-> "a"]

ScenarioTexts == {SentencesText, RunText}

(***************************************************************************)
(* Texts                                                                   *)
(***************************************************************************)
TBlank == [len |-> 1, parts |-> <<>>]
TOne == [len |-> 2, parts |-> <<2>>]
TTwo == [len |-> 3, parts |-> <<1, 2>>]

Texts == {TBlank, TOne, TTwo}

\* a text as the controller sees it: its length and the lengths of the
\* segments splitIntoSentences returns for it
Chapter(text, limit) ==
    LET chunks == SplitIntoSentences(text, limit)
    IN  [len |-> Len(text), parts |-> [i \in 1..Len(chunks) |-> Len(chunks[i])]]

WebChapters ==
    {Chapter(text, getMaxChunkChars(FALSE)) : text \in ScenarioTexts}

NativeChapters ==
    {Chapter(text, getMaxChunkChars(TRUE)) : text \in ScenarioTexts}

ScenarioChapters(native) == IF native THEN NativeChapters ELSE WebChapters

RECURSIVE SumTo(_, _)
SumTo(seq, n) == IF n = 0 THEN 0 ELSE seq[n] + SumTo(seq, n - 1)

\* text.slice(startCharIndex) for a start at the beginning of a part
StartsOf(t) == {SumTo(t.parts, n) : n \in 0..(Len(t.parts) - 1)} \cup {0}

\* splitIntoSentences(text.slice(startCharIndex)): the parts from the start on
splitIntoSentences(t, start) ==
    LET first == CHOOSE n \in 0..Len(t.parts) :
                    \/ n = Len(t.parts) /\ \A m \in 0..(Len(t.parts) - 1) : SumTo(t.parts, m) # start
                    \/ n < Len(t.parts) /\ SumTo(t.parts, n) = start
    IN  SubSeq(t.parts, first + 1, Len(t.parts))

\* the offsets loop of speakFromIndex
chunkOffsets(chunks, start) == [i \in 1..Len(chunks) |-> start + SumTo(chunks, i - 1)]

\* buildWordMap: the word starts of a chunk of the given length
buildWordMap(len) == IF len > 1 THEN <<0, len - 1>> ELSE <<0>>

NoLoop == [none |-> TRUE]
NoCacheOp == [op |-> "", key |-> <<>>, hit |-> FALSE, arrayBuffer |-> <<>>]
NoText == [len |-> 0, parts |-> <<>>]
NoCall == [backend |-> "", outcome |-> "", relaxed |-> FALSE]
\* chunkStartTimeRef.current is 0
NoStart == [gen |-> 0, chunk |-> -1]
NoCalibration == [gen |-> 0, chunk |-> -1, stopped |-> FALSE, start |-> NoStart]


(***************************************************************************)
(* The state as one record, so that the handlers below can be composed the *)
(* way the code calls them; Apply writes a record back to the variables.   *)
(***************************************************************************)
S == [useNative |-> useNative, issued |-> issued, lastSid |-> lastSid,
      liveSid |-> liveSid, calls |-> calls,
      generationRef |-> generationRef, speakingRef |-> speakingRef,
      pausedRef |-> pausedRef, isSpeaking |-> isSpeaking,
      isPaused |-> isPaused, progress |-> progress,
      activeCharIndex |-> activeCharIndex, textRef |-> textRef,
      chunksRef |-> chunksRef, chunkOffsetsRef |-> chunkOffsetsRef,
      currentChunkRef |-> currentChunkRef,
      boundaryFiredRef |-> boundaryFiredRef, rafRef |-> rafRef,
      rafLoop |-> rafLoop, loops |-> loops, nativeCalls |-> nativeCalls,
      synthQueue |-> synthQueue, synthPaused |-> synthPaused,
      isRunning |-> isRunning, isKeptAwake |-> isKeptAwake,
      screenWakeLock |-> screenWakeLock,
      silentAudioActive |-> silentAudioActive,
      wakeLockBalance |-> wakeLockBalance, detached |-> detached,
      onEndLog |-> onEndLog, toastLog |-> toastLog,
      hasSpeechSynthesis |-> hasSpeechSynthesis,
      warmedAudioEl |-> warmedAudioEl,
      openInstallCalls |-> openInstallCalls,
      adapterFailures |-> adapterFailures, lastSettled |-> NoCall,
      chunkStartTimeRef |-> chunkStartTimeRef, calibrated |-> NoCalibration]

Apply(r, ev) ==
    /\ useNative' = r.useNative
    /\ issued' = r.issued
    /\ lastSid' = r.lastSid
    /\ liveSid' = r.liveSid
    /\ calls' = r.calls
    /\ generationRef' = r.generationRef
    /\ speakingRef' = r.speakingRef
    /\ pausedRef' = r.pausedRef
    /\ isSpeaking' = r.isSpeaking
    /\ isPaused' = r.isPaused
    /\ progress' = r.progress
    /\ activeCharIndex' = r.activeCharIndex
    /\ textRef' = r.textRef
    /\ chunksRef' = r.chunksRef
    /\ chunkOffsetsRef' = r.chunkOffsetsRef
    /\ currentChunkRef' = r.currentChunkRef
    /\ boundaryFiredRef' = r.boundaryFiredRef
    /\ rafRef' = r.rafRef
    /\ rafLoop' = r.rafLoop
    /\ loops' = r.loops
    /\ nativeCalls' = r.nativeCalls
    /\ synthQueue' = r.synthQueue
    /\ synthPaused' = r.synthPaused
    /\ isRunning' = r.isRunning
    /\ isKeptAwake' = r.isKeptAwake
    /\ screenWakeLock' = r.screenWakeLock
    /\ silentAudioActive' = r.silentAudioActive
    /\ wakeLockBalance' = r.wakeLockBalance
    /\ detached' = r.detached
    /\ onEndLog' = r.onEndLog
    /\ toastLog' = r.toastLog
    /\ hasSpeechSynthesis' = r.hasSpeechSynthesis
    /\ warmedAudioEl' = r.warmedAudioEl
    /\ openInstallCalls' = r.openInstallCalls
    /\ adapterFailures' = r.adapterFailures
    /\ lastSettled' = r.lastSettled
    /\ chunkStartTimeRef' = r.chunkStartTimeRef
    /\ calibrated' = r.calibrated
    /\ UNCHANGED <<displayTexts, inputText, maxChunk, merged, startCharIndex,
                   offsets, cacheVars, voiceVars>>
    /\ lastEvent' = ev

\* the event that started a task: its kind, and for a callback the
\* generation and the session under which it was issued
Event(kind, gen, sid) == [kind |-> kind, gen |-> gen, sid |-> sid]

\* a task that is no callback of a session: an API call, a platform promise
Task == Event("task", 0, 0)

RemoveAt(seq, i) == SubSeq(seq, 1, i - 1) \o SubSeq(seq, i + 1, Len(seq))

(***************************************************************************)
(* The position estimator                                                  *)
(***************************************************************************)
clearWordTimer(s) ==
    IF s.rafRef THEN [s EXCEPT !.rafRef = FALSE, !.rafLoop = NoLoop] ELSE s

\* progress is kept as the fraction <<numerator, denominator>> of a percentage
updatePosition(s, globalCharIndex) ==
    [s EXCEPT !.activeCharIndex = globalCharIndex,
              !.progress = IF s.textRef.len > 0
                           THEN <<globalCharIndex * 100, s.textRef.len>>
                           ELSE @]

\* requestAnimationFrame(step): rafRef now names this loop's frame; the frame
\* of the loop it named before stays pending
schedule(s, loop) ==
    [s EXCEPT !.loops = (IF s.rafLoop # NoLoop THEN @ \cup {s.rafLoop} ELSE @) \ {loop},
              !.rafLoop = loop,
              !.rafRef = TRUE]

startWordStepper(s, chunkLen, globalOffset) ==
    LET words == buildWordMap(chunkLen)
        s1 == updatePosition(s, globalOffset + words[1])
    IN  schedule(s1, [gen |-> s.generationRef, sid |-> s.liveSid,
                      off |-> globalOffset, len |-> chunkLen, lastWordIdx |-> 1])

\* the loop's frame ran and was not requested again
unschedule(s, loop) ==
    IF s.rafLoop = loop THEN [s EXCEPT !.rafLoop = NoLoop]
    ELSE [s EXCEPT !.loops = @ \ {loop}]

\* one animation frame of a loop; wordIdx is the word the elapsed time selects,
\* more is fraction < 1
step(s, loop, wordIdx, more) ==
    IF ~s.speakingRef \/ s.pausedRef THEN unschedule(s, loop)
    ELSE LET words == buildWordMap(loop.len)
             moved == [loop EXCEPT !.lastWordIdx = wordIdx]
             s1 == IF wordIdx # loop.lastWordIdx
                   THEN updatePosition(s, loop.off + words[wordIdx])
                   ELSE s
             s2 == unschedule(s1, loop)
         IN  IF more THEN schedule(s2, moved) ELSE s2

(***************************************************************************)
(* The resource coordinator                                                *)
(***************************************************************************)
\* void releaseWakeLock() on the native platform: KeepAwake.allowSleep() is
\* called when the flag is set, and the flag is cleared when it resolves
releaseWakeLockDetached(s) ==
    IF ~s.isKeptAwake THEN s
    ELSE [s EXCEPT !.wakeLockBalance = @ - 1,
                   !.detached = [@ EXCEPT !.allowSleep = @ + 1]]

\* void stopForegroundService()
stopForegroundServiceDetached(s) ==
    IF ~s.isRunning THEN s
    ELSE [s EXCEPT !.detached = [@ EXCEPT !.stopFg = @ + 1]]

(***************************************************************************)
(* The playback controller: segment playback                               *)
(***************************************************************************)
\* nativeSpeak(...) is called: strategy 1, the native plugin, is tried first
nativeSpeak(s, chunkIndex, gen) ==
    [s EXCEPT !.nativeCalls = Append(@, [chunk |-> chunkIndex, gen |-> gen,
                                         sid |-> s.liveSid,
                                         tried |-> <<"plugin">>,
                                         attempt |-> 0,
                                         relaxed |-> FALSE,
                                         triedWithoutVoice |-> FALSE,
                                         stopped |-> FALSE,
                                         unstopped |-> {}])]

\* the end-of-segments branch of speakChunkNative
endOfSegmentsNative(s) ==
    LET s1 == clearWordTimer([s EXCEPT !.speakingRef = FALSE,
                                       !.isSpeaking = FALSE,
                                       !.isPaused = FALSE,
                                       !.progress = <<100, 1>>,
                                       !.activeCharIndex = -1])
        s2 == stopForegroundServiceDetached(releaseWakeLockDetached(s1))
    IN  [s2 EXCEPT !.onEndLog = Append(@, s.liveSid)]

\* "Calibrate CPS": the block measures performance.now() minus
\* chunkStartTimeRef for the segment that ended, and stores the result when
\* the duration is over 100 ms and gives between 2 and 50 characters a second
calibrate(s, gen, chunkIndex, stopped) ==
    [s EXCEPT !.calibrated = [gen |-> gen, chunk |-> chunkIndex,
                              stopped |-> stopped, start |-> s.chunkStartTimeRef]]

\* speakChunkNative up to its await of nativeSpeak; chunkIndex counts from 0
speakChunkNative(s, chunkIndex, gen) ==
    IF ~s.speakingRef \/ gen # s.generationRef THEN s
    ELSE IF chunkIndex >= Len(s.chunksRef) THEN endOfSegmentsNative(s)
    ELSE LET s1 == updatePosition([s EXCEPT !.currentChunkRef = chunkIndex],
                                  s.chunkOffsetsRef[chunkIndex + 1])
             s2 == startWordStepper(
                       [s1 EXCEPT !.chunkStartTimeRef = [gen |-> gen, chunk |-> chunkIndex]],
                       s.chunksRef[chunkIndex + 1],
                       s.chunkOffsetsRef[chunkIndex + 1])
         IN  nativeSpeak(s2, chunkIndex, gen)

\* the same without the test of pausedRef
nativeSpeakResolvedIgnoringPause(s, c) ==
    LET s1 == clearWordTimer(calibrate(s, c.gen, c.chunk, c.stopped))
    IN  IF s1.speakingRef /\ c.gen = s1.generationRef
        THEN speakChunkNative(s1, c.chunk + 1, c.gen)
        ELSE s1

\* speakChunkNative after nativeSpeak resolved
nativeSpeakResolved(s, c) ==
    LET s1 == clearWordTimer(calibrate(s, c.gen, c.chunk, c.stopped))
    IN  IF s1.speakingRef /\ c.gen = s1.generationRef /\ ~s1.pausedRef
        THEN speakChunkNative(s1, c.chunk + 1, c.gen)
        ELSE s1

\* the catch block of speakChunkNative
nativeSpeakRejected(s, c) ==
    IF s.pausedRef THEN clearWordTimer(s)
    ELSE IF c.gen # s.generationRef THEN clearWordTimer(s)
    ELSE LET s1 == clearWordTimer([s EXCEPT !.toastLog =
                      Append(@, [title |-> "Erro no motor de voz", sid |-> c.sid,
                                 tried |-> c.tried])])
         IN  [s1 EXCEPT !.speakingRef = FALSE, !.isSpeaking = FALSE,
                        !.isPaused = FALSE, !.activeCharIndex = -1]


\* the end-of-segments branch of speakChunkWeb
endOfSegmentsWeb(s) ==
    LET s1 == clearWordTimer([s EXCEPT !.speakingRef = FALSE,
                                       !.isSpeaking = FALSE,
                                       !.isPaused = FALSE,
                                       !.progress = <<100, 1>>,
                                       !.activeCharIndex = -1])
    IN  [s1 EXCEPT !.onEndLog = Append(@, s.liveSid)]

\* speakChunkWeb: the utterance is handed to speechSynthesis.speak
speakChunkWeb(s, chunkIndex, gen) ==
    IF ~s.speakingRef \/ gen # s.generationRef THEN s
    ELSE IF chunkIndex >= Len(s.chunksRef) THEN endOfSegmentsWeb(s)
    ELSE LET s1 == updatePosition([s EXCEPT !.currentChunkRef = chunkIndex,
                                            !.boundaryFiredRef = FALSE],
                                  s.chunkOffsetsRef[chunkIndex + 1])
         IN  IF ~s.hasSpeechSynthesis THEN s1
             ELSE [s1 EXCEPT !.synthQueue =
                  Append(@, [chunk |-> chunkIndex, gen |-> gen,
                             sid |-> s.liveSid,
                             off |-> s.chunkOffsetsRef[chunkIndex + 1],
                             len |-> s.chunksRef[chunkIndex + 1],
                             started |-> FALSE])]

speakChunk(s, chunkIndex, gen) ==
    IF s.useNative THEN speakChunkNative(s, chunkIndex, gen)
    ELSE speakChunkWeb(s, chunkIndex, gen)

\* utterance.onboundary for a word event at charIndex
onboundary(s, u, charIndex) ==
    LET s1 == IF ~s.boundaryFiredRef
              THEN clearWordTimer([s EXCEPT !.boundaryFiredRef = TRUE])
              ELSE s
    IN  updatePosition(s1, u.off + charIndex)

\* utterance.onstart
onstart(s, u) ==
    IF u.gen # s.generationRef THEN s
    ELSE LET s1 == [s EXCEPT !.chunkStartTimeRef = [gen |-> u.gen, chunk |-> u.chunk]]
         IN  IF ~s1.boundaryFiredRef /\ s1.speakingRef
             THEN startWordStepper(s1, u.len, u.off)
             ELSE s1

\* utterance.onend
onend(s, u) ==
    IF u.gen # s.generationRef THEN s
    ELSE LET s1 == clearWordTimer(s)
             s2 == IF ~s1.boundaryFiredRef /\ s1.chunkStartTimeRef # NoStart
                   THEN calibrate(s1, u.gen, u.chunk, FALSE)
                   ELSE s1
         IN  speakChunkWeb(s2, u.chunk + 1, u.gen)

\* utterance.onerror for an error other than canceled and interrupted
onerror(s, u) ==
    IF u.gen # s.generationRef THEN s
    ELSE LET s1 == clearWordTimer(s)
         IN  [s1 EXCEPT !.toastLog =
                      Append(@, [title |-> "Erro no motor de voz (Web)",
                                 sid |-> u.sid, tried |-> <<"web">>]),
                        !.speakingRef = FALSE,
                        !.isSpeaking = FALSE, !.isPaused = FALSE,
                        !.activeCharIndex = -1]

(***************************************************************************)
(* The API calls, phase by phase.  A call that suspends at a platform      *)
(* promise is kept in calls with the name of the promise as its pc.        *)
(***************************************************************************)
setCall(s, c, pc) ==
    [s EXCEPT !.calls = {x \in @ : x.id # c.id} \cup {[c EXCEPT !.pc = pc]}]

doneCall(s, c) == [s EXCEPT !.calls = {x \in @ : x.id # c.id}]

\* stop(): await stopForegroundService()
stopForegroundService(s, c) ==
    IF ~s.isRunning THEN doneCall(s, c)
    ELSE setCall(s, c, "stopForegroundService")

\* stop(): await releaseWakeLock()
releaseWakeLock(s, c) ==
    IF ~s.isKeptAwake THEN stopForegroundService(s, c)
    ELSE IF s.useNative
         THEN setCall([s EXCEPT !.wakeLockBalance = @ - 1], c, "allowSleep")
    ELSE IF ~s.screenWakeLock
         THEN stopForegroundService([s EXCEPT !.isKeptAwake = FALSE,
                                              !.silentAudioActive = FALSE], c)
    ELSE setCall([s EXCEPT !.isKeptAwake = FALSE, !.wakeLockBalance = @ - 1],
                 c, "wakeLockRelease")

\* speakFromIndex after await cancelCurrentSpeech(false)
startSession(s, c) ==
    LET chunks == splitIntoSentences(c.text, c.start)
        s1 == [s EXCEPT !.textRef = c.text]
    IN  IF chunks = <<>>
        THEN doneCall([s1 EXCEPT !.isSpeaking = FALSE, !.isPaused = FALSE,
                                 !.progress = <<0, 1>>,
                                 !.activeCharIndex = -1], c)
        ELSE LET s2 == [s1 EXCEPT !.chunksRef = chunks,
                                  !.chunkOffsetsRef = chunkOffsets(chunks, c.start),
                                  !.generationRef = @ + 1,
                                  !.speakingRef = TRUE,
                                  !.pausedRef = FALSE,
                                  !.isSpeaking = TRUE,
                                  !.isPaused = FALSE,
                                  !.activeCharIndex = c.start,
                                  !.liveSid = c.id]
             IN  doneCall(speakChunk(s2, 0, s2.generationRef), c)

\* cancelCurrentSpeech after the backend stop
afterCancel(s, c) ==
    LET s1 == [clearWordTimer(s) EXCEPT !.chunksRef = <<>>,
                                        !.chunkOffsetsRef = <<>>]
    IN  IF c.kind = "stop"
        THEN releaseWakeLock([s1 EXCEPT !.isSpeaking = FALSE,
                                        !.isPaused = FALSE,
                                        !.progress = <<0, 1>>,
                                        !.activeCharIndex = -1], c)
        ELSE startSession(s1, c)

\* nativeStop(): plugin.stop() is called at once, speechSynthesis.cancel()
\* and cloudStop() when it has resolved; the adapter call a nativeSpeak call
\* is waiting for has been stopped
nativeStop(s) ==
    [s EXCEPT !.nativeCalls =
         [i \in 1..Len(@) |-> [@[i] EXCEPT !.stopped = TRUE,
                                           !.unstopped = {}]]]

\* cancelCurrentSpeech up to the backend stop: awaited nativeStop() on the
\* native platform, speechSynthesis.cancel() otherwise
cancelCurrentSpeech(s, c) ==
    LET s1 == [s EXCEPT !.generationRef = @ + 1, !.speakingRef = FALSE,
                        !.pausedRef = FALSE]
    IN  IF s.useNative THEN setCall(nativeStop(s1), c, "nativeStop")
        ELSE afterCancel([s1 EXCEPT !.synthQueue = <<>>], c)

\* speak(): await acquireWakeLock(), then speakFromIndex(text, 0)
acquireWakeLock(s, c) ==
    IF s.isKeptAwake THEN cancelCurrentSpeech(s, c)
    ELSE IF s.useNative
         THEN setCall([s EXCEPT !.wakeLockBalance = @ + 1], c, "keepAwake")
    ELSE IF s.screenWakeLock
         THEN cancelCurrentSpeech([s EXCEPT !.isKeptAwake = TRUE,
                                            !.silentAudioActive = TRUE], c)
    ELSE setCall([s EXCEPT !.isKeptAwake = TRUE, !.wakeLockBalance = @ + 1],
                 c, "wakeLockRequest")

\* speak(): await startForegroundService(); the plugin exists on the native
\* platform only
startForegroundService(s, c) ==
    IF s.isRunning \/ ~s.useNative THEN acquireWakeLock(s, c)
    ELSE setCall(s, c, "startForegroundService")

newCall(s, kind, t, start) ==
    [id |-> s.issued + 1, kind |-> kind, pc |-> "new", text |-> t,
     start |-> start, genAtCall |-> s.generationRef]

speak(s, t) ==
    LET c == newCall(s, "speak", t, 0)
    IN  startForegroundService([s EXCEPT !.issued = @ + 1, !.lastSid = c.id], c)

speakFromIndex(s, t, start) ==
    LET c == newCall(s, "speakFromIndex", t, start)
    IN  cancelCurrentSpeech([s EXCEPT !.issued = @ + 1, !.lastSid = c.id], c)

stop(s) ==
    LET c == newCall(s, "stop", NoText, 0)
    IN  cancelCurrentSpeech([s EXCEPT !.issued = @ + 1], c)

\* pause(): the native nativeStop() is not awaited
pause(s) ==
    LET s1 == clearWordTimer([s EXCEPT !.issued = @ + 1, !.pausedRef = TRUE,
                                       !.isPaused = TRUE])
    IN  IF s.useNative THEN nativeStop(s1)
        ELSE IF ~s.hasSpeechSynthesis THEN s1
        ELSE [s1 EXCEPT !.synthPaused = TRUE]

resume(s) ==
    IF s.useNative
    THEN LET s1 == [s EXCEPT !.issued = @ + 1, !.pausedRef = FALSE,
                             !.speakingRef = TRUE, !.isPaused = FALSE]
         IN  speakChunk(s1, s1.currentChunkRef, s1.generationRef)
    ELSE IF ~s.hasSpeechSynthesis THEN [s EXCEPT !.issued = @ + 1]
    ELSE LET s1 == [s EXCEPT !.issued = @ + 1, !.synthPaused = FALSE,
                             !.pausedRef = FALSE, !.isPaused = FALSE]
         IN  IF ~s1.boundaryFiredRef /\ s1.speakingRef
                /\ s1.currentChunkRef < Len(s1.chunksRef)
             THEN startWordStepper(
                      [s1 EXCEPT !.chunkStartTimeRef =
                          [gen |-> s1.generationRef, chunk |-> s1.currentChunkRef]],
                      s1.chunksRef[s1.currentChunkRef + 1],
                      s1.chunkOffsetsRef[s1.currentChunkRef + 1])
             ELSE s1


(***************************************************************************)
(* The adapters behind nativeSpeak: the native plugin, then tryWebSpeech,  *)
(* then cloudSpeak                                                         *)
(***************************************************************************)
Last(seq) == seq[Len(seq)]

\* the strategies of nativeSpeak in the order of its code
Strategies == <<"plugin", "web", "cloud">>

\* a nativeSpeak that goes from the plugin straight to the cloud
nextStrategySkippingWebSpeech(b) == "cloud"

\* the strategy nativeSpeak falls back to after the given one
nextStrategy(b) == IF b = "plugin" THEN "web" ELSE "cloud"

\* a strategy of nativeSpeak produced no audio: the next one is tried, and
\* after cloudSpeak nativeSpeak throws
strategyFailed(s, i) ==
    LET c == s.nativeCalls[i]
    IN  IF Last(c.tried) = "cloud"
        THEN nativeSpeakRejected([s EXCEPT !.nativeCalls = RemoveAt(@, i)], c)
        ELSE [s EXCEPT !.nativeCalls[i].tried = Append(@, nextStrategy(Last(@)))]

\* a strategy of nativeSpeak returned an engine: nativeSpeak resolves
strategySucceeded(s, i) ==
    nativeSpeakResolved([s EXCEPT !.nativeCalls = RemoveAt(@, i)], s.nativeCalls[i])

(***************************************************************************)
(* nativeSpeak adapter call by adapter call: the attempts of the plugin    *)
(* loop, tryWebSpeech, cloudSpeak.  The awaits between two adapter calls   *)
(* (resolveBestPluginLanguage, resolveVoiceIndex, sleep, openInstall) are   *)
(* taken with the adapter call that follows them.                          *)
(***************************************************************************)
PLUGIN_ATTEMPTS == 5

\* how a plugin.speak call can end; "canceled" is the rejection of a call
\* ended by plugin.stop()
PluginOutcomes(c) ==
    {"ok", "language", "notInitialized", "noEngine", "timeout", "other"}
        \cup (IF c.stopped THEN {"canceled"} ELSE {})

\* how the utterance of tryWebSpeech can end; "timeout" is the 8 s timer
WebSpeechOutcomes(c) ==
    {"end", "error", "timeout"} \cup (IF c.stopped THEN {"canceled"} ELSE {})

\* how cloudSpeak can end once it ends; "canceled" is the playback error of
\* an audio element emptied by cloudStop()
CloudOutcomes(c) ==
    {"ok", "fetchFailed", "playFailed"}
        \cup (IF c.stopped THEN {"canceled"} ELSE {})

\* nativeSpeak returns { engine }
nativeSpeakReturns(s, i, engine) ==
    nativeSpeakResolved([s EXCEPT !.nativeCalls = RemoveAt(@, i)],
                        s.nativeCalls[i])

\* nativeSpeak throws after cloudSpeak failed
nativeSpeakThrows(s, i) ==
    nativeSpeakRejected([s EXCEPT !.nativeCalls = RemoveAt(@, i)],
                        s.nativeCalls[i])

\* a timer gave up the wait for a backend call: withTimeout around
\* plugin.speak, the timer of 8000 ms of tryWebSpeech; the backend call goes
\* on, nothing stops it
timedOut(s, i, backend) ==
    [s EXCEPT !.nativeCalls[i].unstopped = @ \cup {backend}]

\* strategy 3 starts: cloudSpeak
cloudSpeak(s, i) ==
    [s EXCEPT !.nativeCalls[i].tried = Append(@, "cloud"),
              !.nativeCalls[i].stopped = FALSE]

\* the plugin loop is left: its locals are dead
break(s, i) ==
    [s EXCEPT !.nativeCalls[i].attempt = 0,
              !.nativeCalls[i].relaxed = FALSE,
              !.nativeCalls[i].triedWithoutVoice = FALSE]

\* strategy 2 starts: tryWebSpeech, which resolves null at once when there is
\* no speechSynthesis
tryWebSpeech(s, i) ==
    IF ~s.hasSpeechSynthesis THEN cloudSpeak(s, i)
    ELSE [s EXCEPT !.nativeCalls =
             [j \in 1..Len(@) |->
                 IF j = i
                 THEN [@[j] EXCEPT !.tried = Append(@, "web"),
                                   !.stopped = FALSE,
                                   !.unstopped = @ \ {"web"}]
                 ELSE [@[j] EXCEPT !.unstopped = @ \ {"web"}]]]

\* continue in a loop without the test attempt < 5
continueWithoutBound(s, i) ==
    [s EXCEPT !.nativeCalls[i].attempt = @ + 1,
              !.nativeCalls[i].stopped = FALSE]

\* continue in the plugin loop: the next attempt, if there is one
continue(s, i) ==
    IF s.nativeCalls[i].attempt + 1 < PLUGIN_ATTEMPTS
    THEN [s EXCEPT !.nativeCalls[i].attempt = @ + 1,
                   !.nativeCalls[i].stopped = FALSE]
    ELSE tryWebSpeech(break(s, i), i)

\* the end of the catch block of the plugin loop: one retry without the
\* voice when a voice was asked for, break otherwise
retryWithoutVoice(s, i, voiceURI) ==
    IF ~s.nativeCalls[i].triedWithoutVoice /\ voiceURI
    THEN continue([s EXCEPT !.nativeCalls[i].triedWithoutVoice = TRUE], i)
    ELSE tryWebSpeech(break(s, i), i)

\* the same, but a success of the attempt made with the language relaxed is
\* handed to the next backend
pluginSpeakSettledEscalatingRelaxedSuccess(s, i, outcome, voiceURI) ==
    CASE outcome = "ok" /\ s.nativeCalls[i].relaxed -> tryWebSpeech(break(s, i), i)
      [] outcome = "ok" /\ ~s.nativeCalls[i].relaxed ->
            nativeSpeakReturns(s, i, "capacitor-plugin")
      [] outcome = "language" ->
            continue([s EXCEPT !.nativeCalls[i].relaxed = TRUE], i)
      [] outcome = "notInitialized" -> continue(s, i)
      [] outcome = "noEngine" ->
            retryWithoutVoice([s EXCEPT !.openInstallCalls = @ + 1], i, voiceURI)
      [] outcome = "timeout" -> tryWebSpeech(break(timedOut(s, i, "plugin"), i), i)
      [] OTHER -> retryWithoutVoice(s, i, voiceURI)

\* a plugin.speak attempt ended; voiceURI: options.voiceURI is set
pluginSpeakSettled(s, i, outcome, voiceURI) ==
    CASE outcome = "ok" -> nativeSpeakReturns(s, i, "capacitor-plugin")
      [] outcome = "language" ->
            continue([s EXCEPT !.nativeCalls[i].relaxed = TRUE], i)
      [] outcome = "notInitialized" -> continue(s, i)
      [] outcome = "noEngine" ->
            retryWithoutVoice([s EXCEPT !.openInstallCalls = @ + 1], i, voiceURI)
      [] outcome = "timeout" -> tryWebSpeech(break(timedOut(s, i, "plugin"), i), i)
      [] OTHER -> retryWithoutVoice(s, i, voiceURI)

\* the utterance of tryWebSpeech ended
webSpeechSettled(s, i, outcome) ==
    CASE outcome = "end" -> nativeSpeakReturns(s, i, "webSpeech")
      [] outcome = "canceled" -> nativeSpeakReturns(s, i, "webSpeech-canceled")
      [] outcome = "timeout" -> cloudSpeak(timedOut(s, i, "web"), i)
      [] OTHER -> cloudSpeak(s, i)

\* cloudSpeak ended: it plays through the warmed audio element and leaves a
\* new one behind when the playback succeeded
cloudSpeakSettled(s, i, outcome) ==
    CASE outcome = "ok" ->
            nativeSpeakReturns([s EXCEPT !.warmedAudioEl = TRUE], i, "cloud:google")
      [] outcome = "fetchFailed" -> nativeSpeakThrows(s, i)
      [] OTHER -> nativeSpeakThrows([s EXCEPT !.warmedAudioEl = FALSE], i)

(***************************************************************************)
(* Initial state                                                           *)
(***************************************************************************)
Init ==
    /\ useNative \in BOOLEAN
    /\ issued = 0
    /\ lastSid = 0
    /\ liveSid = 0
    /\ calls = {}
    /\ generationRef = 0
    /\ speakingRef = FALSE
    /\ pausedRef = FALSE
    /\ isSpeaking = FALSE
    /\ isPaused = FALSE
    /\ progress = <<0, 1>>
    /\ activeCharIndex = -1
    /\ textRef = NoText
    /\ chunksRef = <<>>
    /\ chunkOffsetsRef = <<>>
    /\ currentChunkRef = 0
    /\ boundaryFiredRef = FALSE
    /\ rafRef = FALSE
    /\ rafLoop = NoLoop
    /\ loops = {}
    /\ nativeCalls = <<>>
    /\ synthQueue = <<>>
    /\ synthPaused = FALSE
    /\ isRunning = FALSE
    /\ isKeptAwake = FALSE
    /\ screenWakeLock = FALSE
    /\ silentAudioActive = FALSE
    /\ wakeLockBalance = 0
    /\ detached = [allowSleep |-> 0, stopFg |-> 0]
    /\ onEndLog = <<>>
    /\ toastLog = <<>>
    /\ hasSpeechSynthesis \in BOOLEAN
    /\ displayTexts \in {Texts, {TOne}, ScenarioChapters(useNative)}
    /\ warmedAudioEl = FALSE
    /\ openInstallCalls = 0
    /\ adapterFailures = 0
    /\ lastSettled = NoCall
    /\ chunkStartTimeRef = NoStart
    /\ calibrated = NoCalibration
    /\ inputText \in TextsUpTo(MaxTextLen)
    /\ maxChunk \in (1..MaxSegmentLimit) \cup {MAX_CHUNK_WEB, MAX_CHUNK_CLOUD}
    /\ merged = <<>>
    /\ startCharIndex = 0
    /\ offsets = <<>>
    /\ preBufferCache = <<>>
    /\ prefetches = {}
    /\ prefetchCalls = 0
    /\ cacheClock = 0
    /\ selectedCloudVoice = <<>>
    /\ lastCacheOp = NoCacheOp
    /\ voices = <<>>
    /\ selectedVoice = <<>>
    /\ voiceLoad = "not run"
    /\ webVoices = <<>>
    /\ webSpeechWaits = <<>>
    /\ onvoiceschanged = 0
    /\ lastEvent = Event("init", 0, 0)

\* no text has been given to the chunker on its own
NoChunkerInput(limit) == inputText = <<>> /\ maxChunk = limit

InitNative ==
    /\ Init
    /\ useNative /\ hasSpeechSynthesis /\ displayTexts = Texts
    /\ NoChunkerInput(MAX_CHUNK_CLOUD)

\* the native platform with one chapter of one segment on the page
InitAdapter ==
    /\ Init
    /\ useNative /\ hasSpeechSynthesis /\ displayTexts = {TOne}
    /\ NoChunkerInput(MAX_CHUNK_CLOUD)

InitWeb ==
    /\ Init
    /\ ~useNative /\ hasSpeechSynthesis /\ displayTexts = Texts
    /\ NoChunkerInput(MAX_CHUNK_WEB)

\* either platform with a text of ScenarioLength characters on the page
InitScenario ==
    /\ Init
    /\ hasSpeechSynthesis /\ displayTexts = ScenarioChapters(useNative)
    /\ NoChunkerInput(getMaxChunkChars(useNative))

\* a browser with or without the Web Speech API
InitBrowser ==
    Init /\ ~useNative /\ displayTexts = Texts /\ NoChunkerInput(MAX_CHUNK_WEB)

(***************************************************************************)
(* Actions: the API calls of the hosting UI                                *)
(***************************************************************************)
Speak ==
    /\ issued < MaxCalls
    /\ \E t \in displayTexts : Apply(speak(S, t), Task)

SpeakFromIndex ==
    /\ issued < MaxCalls
    /\ \E t \in displayTexts : \E start \in StartsOf(t) :
          Apply(speakFromIndex(S, t, start), Task)

Stop ==
    /\ issued < MaxCalls
    /\ Apply(stop(S), Task)

Pause ==
    /\ issued < MaxCalls
    /\ Apply(pause(S), Task)

Resume ==
    /\ issued < MaxCalls
    /\ Apply(resume(S), Event("resume", 0, 0))

(***************************************************************************)
(* Actions: platform promises of suspended API calls settle                *)
(***************************************************************************)
ForegroundServiceStarted ==
    \E c \in calls :
        /\ c.pc = "startForegroundService"
        /\ Apply(acquireWakeLock([S EXCEPT !.isRunning = TRUE], c),
                 Task)

KeepAwakeResolved ==
    \E c \in calls :
        /\ c.pc = "keepAwake"
        /\ Apply(cancelCurrentSpeech([S EXCEPT !.isKeptAwake = TRUE], c),
                 Task)

WakeLockRequestResolved ==
    \E c \in calls :
        /\ c.pc = "wakeLockRequest"
        /\ Apply(cancelCurrentSpeech([S EXCEPT !.screenWakeLock = TRUE,
                                               !.silentAudioActive = TRUE], c),
                 Task)

NativeStopResolved ==
    \E c \in calls :
        /\ c.pc = "nativeStop"
        /\ Apply(afterCancel(S, c), Task)

AllowSleepResolved ==
    \E c \in calls :
        /\ c.pc = "allowSleep"
        /\ Apply(stopForegroundService([S EXCEPT !.isKeptAwake = FALSE], c),
                 Task)

WakeLockReleaseResolved ==
    \E c \in calls :
        /\ c.pc = "wakeLockRelease"
        /\ Apply(stopForegroundService([S EXCEPT !.screenWakeLock = FALSE,
                                                 !.silentAudioActive = FALSE], c),
                 Task)

ForegroundServiceStopped ==
    \E c \in calls :
        /\ c.pc = "stopForegroundService"
        /\ Apply(doneCall([S EXCEPT !.isRunning = FALSE], c),
                 Task)

DetachedAllowSleepResolved ==
    /\ detached.allowSleep > 0
    /\ Apply([S EXCEPT !.isKeptAwake = FALSE,
                       !.detached = [@ EXCEPT !.allowSleep = @ - 1]],
             Task)

DetachedForegroundServiceStopped ==
    /\ detached.stopFg > 0
    /\ Apply([S EXCEPT !.isRunning = FALSE,
                       !.detached = [@ EXCEPT !.stopFg = @ - 1]],
             Task)

(***************************************************************************)
(* Actions: nativeSpeak settles.  NativeSpeakResolves and                  *)
(* NativeSpeakRejects take a call from its start to its outcome in one     *)
(* step; StrategySucceeds and StrategyFails follow it strategy by strategy.*)
(***************************************************************************)
NativeSpeakResolves ==
    \E i \in 1..Len(nativeCalls) :
        Apply(strategySucceeded(S, i),
              Event("nativeSpeak resolved", nativeCalls[i].gen, nativeCalls[i].sid))

NativeSpeakRejects ==
    \E i \in 1..Len(nativeCalls) :
        Apply(nativeSpeakRejected([S EXCEPT !.nativeCalls = RemoveAt(@, i)],
                                  [nativeCalls[i] EXCEPT !.tried = Strategies]),
              Event("nativeSpeak rejected", nativeCalls[i].gen, nativeCalls[i].sid))

StrategySucceeds ==
    \E i \in 1..Len(nativeCalls) :
        Apply(strategySucceeded(S, i),
              Event("nativeSpeak resolved", nativeCalls[i].gen, nativeCalls[i].sid))

StrategyFails ==
    \E i \in 1..Len(nativeCalls) :
        Apply(strategyFailed(S, i),
              IF Last(nativeCalls[i].tried) = "cloud"
              THEN Event("nativeSpeak rejected", nativeCalls[i].gen, nativeCalls[i].sid)
              ELSE Task)

\* an adapter call of the i-th nativeSpeak call ended with the outcome: the
\* record r is the state the code leaves, settlement the way nativeSpeak
\* ended, if it did
inFallback(c) == c.attempt > 0 \/ Len(c.tried) > 1

AdapterSettles(r, i, backend, outcome, settlement) ==
    LET audio == outcome \in {"ok", "end"}
        others == {j \in 1..Len(nativeCalls) :
                      j # i /\ inFallback(nativeCalls[j])}
    IN
    /\ audio \/ adapterFailures < MaxAdapterFailures
    /\ settlement = "" => Cardinality(others) < MaxFailingCalls
    /\ Apply([r EXCEPT !.lastSettled = [backend |-> backend, outcome |-> outcome,
                                        relaxed |-> nativeCalls[i].relaxed],
                       !.adapterFailures = IF audio THEN @ ELSE @ + 1],
             IF settlement = "" THEN Event("adapter call failed", 0, 0)
             ELSE Event(settlement, nativeCalls[i].gen, nativeCalls[i].sid))

PluginSpeakSettles ==
    \E i \in 1..Len(nativeCalls) :
        /\ Last(nativeCalls[i].tried) = "plugin"
        /\ \E outcome \in PluginOutcomes(nativeCalls[i]) : \E voiceURI \in BOOLEAN :
              AdapterSettles(pluginSpeakSettled(S, i, outcome, voiceURI),
                             i, "plugin", outcome,
                             IF outcome = "ok" THEN "nativeSpeak resolved" ELSE "")

\* the same for a run that follows one speakFromIndex call through every
\* attempt of the plugin loop
PluginSpeakEnds ==
    \E i \in 1..Len(nativeCalls) :
        /\ Last(nativeCalls[i].tried) = "plugin"
        /\ \E outcome \in PluginOutcomes(nativeCalls[i]) : \E voiceURI \in BOOLEAN :
              Apply([pluginSpeakSettled(S, i, outcome, voiceURI) EXCEPT
                        !.lastSettled = [backend |-> "plugin", outcome |-> outcome,
                                         relaxed |-> nativeCalls[i].relaxed],
                        !.adapterFailures = IF outcome = "ok" THEN @ ELSE @ + 1],
                    IF outcome = "ok"
                    THEN Event("nativeSpeak resolved", nativeCalls[i].gen,
                               nativeCalls[i].sid)
                    ELSE Event("adapter call failed", 0, 0))

\* the first speakFromIndex call of a run
FirstSpeakFromIndex == issued = 0 /\ SpeakFromIndex

WebSpeechSettles ==
    \E i \in 1..Len(nativeCalls) :
        /\ Last(nativeCalls[i].tried) = "web"
        /\ \E outcome \in WebSpeechOutcomes(nativeCalls[i]) :
              AdapterSettles(webSpeechSettled(S, i, outcome), i, "web", outcome,
                             IF outcome \in {"end", "canceled"}
                             THEN "nativeSpeak resolved" ELSE "")

CloudSpeakSettles ==
    \E i \in 1..Len(nativeCalls) :
        /\ Last(nativeCalls[i].tried) = "cloud"
        /\ \E outcome \in CloudOutcomes(nativeCalls[i]) :
              AdapterSettles(cloudSpeakSettled(S, i, outcome), i, "cloud", outcome,
                             IF outcome = "ok" THEN "nativeSpeak resolved"
                             ELSE "nativeSpeak rejected")

(***************************************************************************)
(* Actions: events of the head utterance of speechSynthesis                *)
(***************************************************************************)
UtteranceStart ==
    /\ synthQueue # <<>>
    /\ ~synthPaused
    /\ ~synthQueue[1].started
    /\ Apply(onstart([S EXCEPT !.synthQueue[1].started = TRUE], synthQueue[1]),
             Event("onstart", synthQueue[1].gen, synthQueue[1].sid))

UtteranceBoundary ==
    /\ synthQueue # <<>>
    /\ ~synthPaused
    /\ synthQueue[1].started
    /\ \E w \in 1..Len(buildWordMap(synthQueue[1].len)) :
          Apply(onboundary(S, synthQueue[1], buildWordMap(synthQueue[1].len)[w]),
                Event("onboundary", synthQueue[1].gen, synthQueue[1].sid))

UtteranceEnd ==
    /\ synthQueue # <<>>
    /\ ~synthPaused
    /\ synthQueue[1].started
    /\ Apply(onend([S EXCEPT !.synthQueue = Tail(@)], synthQueue[1]),
             Event("onend", synthQueue[1].gen, synthQueue[1].sid))

UtteranceError ==
    /\ synthQueue # <<>>
    /\ Apply(onerror([S EXCEPT !.synthQueue = Tail(@)], synthQueue[1]),
             Event("onerror", synthQueue[1].gen, synthQueue[1].sid))

(***************************************************************************)
(* Actions: an animation frame of a stepper loop.  The word a frame selects *)
(* grows with the time since chunkStartTimeRef, which is set anew before    *)
(* every start of a loop: the loop started last never steps back, a loop    *)
(* whose frame was left pending measures from the start of a later loop.    *)
(***************************************************************************)
AnimationFrame ==
    \E loop \in (loops \cup {rafLoop}) \ {NoLoop} :
        \E wordIdx \in 1..Len(buildWordMap(loop.len)) : \E more \in BOOLEAN :
            /\ ~more => wordIdx = Len(buildWordMap(loop.len))
            /\ loop = rafLoop => wordIdx >= loop.lastWordIdx
            /\ Apply(step(S, loop, wordIdx, more), Event("frame", loop.gen, loop.sid))

(***************************************************************************)
(* The chunker on its own: splitIntoSentences is applied to a text         *)
(***************************************************************************)
InitChunker ==
    /\ Init
    /\ useNative /\ hasSpeechSynthesis /\ displayTexts = Texts
    /\ maxChunk \in 1..MaxSegmentLimit

Split ==
    /\ merged = <<>>
    /\ merged' = SplitIntoSentences(inputText, maxChunk)
    /\ lastEvent' = Task
    /\ UNCHANGED <<useNative, issued, lastSid, liveSid, calls, generationRef,
                   speakingRef, pausedRef, isSpeaking, isPaused, progress,
                   activeCharIndex, textRef, chunksRef, chunkOffsetsRef,
                   currentChunkRef, boundaryFiredRef, rafRef, rafLoop, loops,
                   nativeCalls, synthQueue, synthPaused, isRunning,
                   isKeptAwake, screenWakeLock, silentAudioActive,
                   wakeLockBalance, detached, onEndLog, toastLog,
                   hasSpeechSynthesis, displayTexts, warmedAudioEl,
                   openInstallCalls,
                   adapterFailures,
                   lastSettled, chunkStartTimeRef, calibrated,
                   inputText, maxChunk, startCharIndex, offsets,
                   cacheVars, voiceVars>>

\* speakFromIndex(text, startCharIndex) up to chunkOffsetsRef: the slice, the
\* segments and the offsets loop
SplitFromIndex ==
    /\ merged = <<>>
    /\ \E start \in 0..Len(inputText) :
          LET textToSpeak == slice(inputText, start)
              chunks == IF trim(textToSpeak)
                        THEN SplitIntoSentences(textToSpeak, maxChunk)
                        ELSE <<>>
          IN  /\ startCharIndex' = start
              /\ merged' = chunks
              /\ offsets' = chunkOffsets([i \in 1..Len(chunks) |-> Len(chunks[i])],
                                         start)
    /\ lastEvent' = Event("speakFromIndex", 0, 0)
    /\ UNCHANGED <<useNative, issued, lastSid, liveSid, calls, generationRef,
                   speakingRef, pausedRef, isSpeaking, isPaused, progress,
                   activeCharIndex, textRef, chunksRef, chunkOffsetsRef,
                   currentChunkRef, boundaryFiredRef, rafRef, rafLoop, loops,
                   nativeCalls, synthQueue, synthPaused, isRunning,
                   isKeptAwake, screenWakeLock, silentAudioActive,
                   wakeLockBalance, detached, onEndLog, toastLog,
                   hasSpeechSynthesis, displayTexts, warmedAudioEl,
                   openInstallCalls,
                   adapterFailures,
                   lastSettled, chunkStartTimeRef, calibrated,
                   inputText, maxChunk, cacheVars, voiceVars>>

(***************************************************************************)
(* The pre-fetch cache of the cloud backend.  preBufferCache is a Map: its *)
(* entries are kept in the order their keys were inserted, and set() on a  *)
(* key it holds replaces the value where the key is.                       *)
(***************************************************************************)
\* characters of the text that enter a cache key
KEY_TEXT_CHARS == 50
\* entries the cache keeps
PREBUFFER_MAX == 3
\* preBufferChunk calls of one run
MaxPrefetches == 4

\* the texts handed to the cloud backend: a short one and two that differ
\* only behind the characters that enter the key
CacheTexts ==
    {<<"a">>,
     [i \in 1..(KEY_TEXT_CHARS + 1) |-> IF i > KEY_TEXT_CHARS THEN "y" ELSE "x"],
     [i \in 1..(KEY_TEXT_CHARS + 1) |-> IF i > KEY_TEXT_CHARS THEN "z" ELSE "x"]}

CloudVoices == {<<>>, <<"v">>}

\* CloudTTSOptions without the callbacks; rate is written as the template
\* string prints it
CloudTTSOptions ==
    [text : CacheTexts, lang : {<<"e", "n">>}, rate : {<<"1">>},
     voiceName : CloudVoices]

\* a || b on strings
orElse(a, b) == IF a # <<>> THEN a ELSE b

\* `${text.slice(0, 50)}_${lang}_${rate}_${voice}`
cacheKey(options, voice) ==
    SubSeq(options.text, 1, Min({KEY_TEXT_CHARS, Len(options.text)})) \o <<"_">> \o options.lang
        \o <<"_">> \o options.rate \o <<"_">> \o voice

\* the audio fetchTTSAudio resolves with, named by the text it speaks
fetchTTSAudio(options) == options.text

\* Map.prototype.has / get / set / delete
mapHas(map, key) == \E i \in 1..Len(map) : map[i].key = key

mapGet(map, key) == map[CHOOSE i \in 1..Len(map) : map[i].key = key].buffer

mapSet(map, key, buffer, now) ==
    IF mapHas(map, key)
    THEN [i \in 1..Len(map) |->
             IF map[i].key = key THEN [map[i] EXCEPT !.buffer = buffer] ELSE map[i]]
    ELSE Append(map, [key |-> key, buffer |-> buffer, inserted |-> now])

mapDelete(map, key) == SelectSeq(map, LAMBDA e : e.key # key)

\* "Keep cache small" with the last key in place of keys().next().value
keepCacheSmallDroppingNewest(map) ==
    IF Len(map) > PREBUFFER_MAX
    THEN LET first == map[Len(map)].key
         IN  IF first # <<>> THEN mapDelete(map, first) ELSE map
    ELSE map

\* "Keep cache small": preBufferCache.keys().next().value is deleted
keepCacheSmall(map) ==
    IF Len(map) > PREBUFFER_MAX
    THEN LET first == map[1].key
         IN  IF first # <<>> THEN mapDelete(map, first) ELSE map
    ELSE map

\* what an operation did with the cache, for the properties
CacheOp(op, key, hit, arrayBuffer) ==
    [op |-> op, key |-> key, hit |-> hit, arrayBuffer |-> arrayBuffer]

\* preBufferChunk(options) up to its await: it returns when the key is
\* cached, else it waits for fetchTTSAudio
PreBufferChunk ==
    /\ prefetchCalls < MaxPrefetches
    /\ \E options \in CloudTTSOptions :
          LET key == cacheKey(options, orElse(options.voiceName, <<>>))
          IN  /\ prefetchCalls' = prefetchCalls + 1
              /\ IF mapHas(preBufferCache, key)
                 THEN /\ prefetches' = prefetches
                      /\ lastCacheOp' = CacheOp("preBufferChunk", key, TRUE,
                            <<>>)
                      /\ lastEvent' = Event("preBufferChunk returned", 0, 0)
                 ELSE /\ prefetches' = prefetches \cup
                            {[options |-> options, key |-> key]}
                      /\ lastCacheOp' = CacheOp("preBufferChunk", key, FALSE,
                            <<>>)
                      /\ lastEvent' = Event("preBufferChunk fetching", 0, 0)
    /\ UNCHANGED <<preBufferCache, cacheClock, selectedCloudVoice>>
    /\ UNCHANGED <<hookVars, chunkerVars, voiceVars>>

\* fetchTTSAudio resolved in preBufferChunk: the buffer is cached and the
\* cache is kept small
PrefetchResolved ==
    /\ \E call \in prefetches :
          LET inserts == ~mapHas(preBufferCache, call.key)
              now == IF inserts THEN cacheClock + 1 ELSE cacheClock
          IN  /\ prefetches' = prefetches \ {call}
              /\ cacheClock' = now
              /\ preBufferCache' =
                    keepCacheSmall(mapSet(preBufferCache, call.key,
                                          fetchTTSAudio(call.options), now))
              /\ lastCacheOp' = CacheOp("preBufferChunk", call.key, ~inserts,
                            fetchTTSAudio(call.options))
    /\ lastEvent' = Event("preBufferChunk resolved", 0, 0)
    /\ UNCHANGED <<prefetchCalls, selectedCloudVoice>>
    /\ UNCHANGED <<hookVars, chunkerVars, voiceVars>>

\* fetchTTSAudio rejected in preBufferChunk: the catch logs it
PrefetchRejected ==
    /\ \E call \in prefetches :
          /\ prefetches' = prefetches \ {call}
          /\ lastCacheOp' = CacheOp("preBufferChunk", call.key, FALSE,
                            <<>>)
    /\ lastEvent' = Event("preBufferChunk failed", 0, 0)
    /\ UNCHANGED <<preBufferCache, prefetchCalls, cacheClock, selectedCloudVoice>>
    /\ UNCHANGED <<hookVars, chunkerVars, voiceVars>>

\* cloudSpeak(options) from its start to the cache lookup: a hit takes the
\* buffer out of the cache, a miss goes on to fetchTTSAudio
CloudSpeakLookup ==
    /\ \E options \in CloudTTSOptions :
          LET key == cacheKey(options, orElse(options.voiceName,
                                              orElse(selectedCloudVoice, <<>>)))
          IN  IF mapHas(preBufferCache, key)
              THEN /\ preBufferCache' = mapDelete(preBufferCache, key)
                   /\ lastCacheOp' = CacheOp("cloudSpeak", key, TRUE,
                            mapGet(preBufferCache, key))
              ELSE /\ preBufferCache' = preBufferCache
                   /\ lastCacheOp' = CacheOp("cloudSpeak", key, FALSE,
                            <<>>)
    /\ lastEvent' = Event("cloudSpeak", 0, 0)
    /\ UNCHANGED <<prefetches, prefetchCalls, cacheClock, selectedCloudVoice>>
    /\ UNCHANGED <<hookVars, chunkerVars, voiceVars>>

\* setCloudVoice(voiceId)
SetCloudVoice ==
    /\ \E voiceId \in CloudVoices \ {selectedCloudVoice} :
          selectedCloudVoice' = voiceId
    /\ lastCacheOp' = NoCacheOp
    /\ lastEvent' = Event("setCloudVoice", 0, 0)
    /\ UNCHANGED <<preBufferCache, prefetches, prefetchCalls, cacheClock>>
    /\ UNCHANGED <<hookVars, chunkerVars, voiceVars>>

\* clearPreBufferCache()
ClearPreBufferCache ==
    /\ preBufferCache # <<>>
    /\ preBufferCache' = <<>>
    /\ lastCacheOp' = NoCacheOp
    /\ lastEvent' = Event("clearPreBufferCache", 0, 0)
    /\ UNCHANGED <<prefetches, prefetchCalls, cacheClock, selectedCloudVoice>>
    /\ UNCHANGED <<hookVars, chunkerVars, voiceVars>>

NextCache ==
    \/ PreBufferChunk \/ PrefetchResolved \/ PrefetchRejected
    \/ CloudSpeakLookup \/ SetCloudVoice \/ ClearPreBufferCache

(***************************************************************************)
(* The voice-loading effect of useTTS.  Strings are sequences of           *)
(* characters; the names of the two default voices are written in ASCII.   *)
(***************************************************************************)
\* voices in a list the platform returns
MaxVoices == 2

Voice(name, lang, voiceURI) ==
    [name |-> name, lang |-> lang, localService |-> TRUE, voiceURI |-> voiceURI]

SYSTEM_DEFAULT_VOICES ==
    <<Voice(<<"*", "V", "o", "z", " ", "p", "a", "d", "r", "a", "o", " ", "d", "o", " ", "s", "i", "s", "t", "e", "m", "a">>, <<"p", "t", "-", "B", "R">>, <<"_", "_", "s", "y", "s", "t", "e", "m", "_", "d", "e", "f", "a", "u", "l", "t", "_", "_">>),
      Voice(<<"*", "S", "y", "s", "t", "e", "m", " ", "d", "e", "f", "a", "u", "l", "t", " ", "v", "o", "i", "c", "e">>, <<"e", "n", "-", "U", "S">>, <<"_", "_", "s", "y", "s", "t", "e", "m", "_", "d", "e", "f", "a", "u", "l", "t", "_", "e", "n", "_", "_">>)>>

FALLBACK_VOICES ==
    <<Voice(<<"*", "V", "o", "z", " ", "p", "a", "d", "r", "a", "o", " ", "d", "o", " ", "s", "i", "s", "t", "e", "m", "a">>, <<"p", "t", "-", "B", "R">>, <<"_", "_", "s", "y", "s", "t", "e", "m", "_", "d", "e", "f", "a", "u", "l", "t", "_", "_">>),
      Voice(<<"*", "S", "y", "s", "t", "e", "m", " ", "d", "e", "f", "a", "u", "l", "t", " ", "v", "o", "i", "c", "e">>, <<"e", "n", "-", "U", "S">>, <<"_", "_", "s", "y", "s", "t", "e", "m", "_", "d", "e", "f", "a", "u", "l", "t", "_", "e", "n", "_", "_">>)>>

\* str.startsWith(prefix)
startsWith(str, prefix) ==
    Len(str) >= Len(prefix) /\ SubSeq(str, 1, Len(prefix)) = prefix

\* v.voiceURI.startsWith('__system_default')
isSystemDefault(v) == startsWith(v.voiceURI, <<"_", "_", "s", "y", "s", "t", "e", "m", "_", "d", "e", "f", "a", "u", "l", "t">>)

\* str.toLowerCase() on the letters of the language tags
toLowerCase(str) ==
    [i \in 1..Len(str) |->
        CASE str[i] = "B" -> "b" [] str[i] = "R" -> "r"
          [] str[i] = "U" -> "u" [] str[i] = "S" -> "s"
          [] OTHER -> str[i]]

\* str.trim()
trimString(str) ==
    LET kept == {i \in 1..Len(str) : str[i] \notin Whitespace}
    IN  IF kept = {} THEN <<>> ELSE SubSeq(str, Min(kept), Max(kept))

\* `${n}` for the indexes of a voice list
numberString(n) == <<<<"1", "2", "3", "4", "5", "6", "7", "8", "9">>[n]>>

\* the voices a platform list can hold: two of one name, one without a URI,
\* one with no name, language or URI, one with a name of blanks
RawVoices ==
    {Voice(<<"A">>, <<"e", "n", "-", "U", "S">>, <<"u">>), Voice(<<"A">>, <<"p", "t", "-", "B", "R">>, <<>>),
     Voice(<<>>, <<>>, <<>>), Voice(<<" ">>, <<>>, <<"u">>)}

RawVoiceLists == UNION {[1..k -> RawVoices] : k \in 0..MaxVoices}

LanguageLists == {<<>>, <<<<"p", "t", "-", "B", "R">>>>, <<<<"e", "n", "-", "U", "S">>, <<"p", "t", "-", "B", "R">>>>}

\* navigator.language.toLowerCase(), or '' without navigator
DeviceLangs == {<<>>, toLowerCase(<<"e", "n", "-", "U", "S">>), toLowerCase(<<"p", "t", "-", "B", "R">>)}

\* normalizeVoices: the name before de-duplication
fallbackName(voice, index) ==
    LET baseName == trimString(orElse(voice.name,
                        orElse(voice.voiceURI,
                               orElse(voice.lang, <<"V", "o", "i", "c", "e">>) \o <<" ">>
                                   \o numberString(index))))
    IN  orElse(baseName, <<"V", "o", "i", "c", "e">> \o <<" ">> \o numberString(index))

normalizeVoices(rawVoices) ==
    LET named == [i \in 1..Len(rawVoices) |->
            LET name == fallbackName(rawVoices[i], i)
                occurrences == Cardinality({j \in 1..(i - 1) :
                                   fallbackName(rawVoices[j], j) = name})
            IN  [rawVoices[i] EXCEPT
                    !.name = IF occurrences > 0
                             THEN name \o <<" ", "#">> \o numberString(occurrences + 1)
                             ELSE name,
                    !.lang = orElse(trimString(orElse(@, <<"u", "n", "d">>)), <<"u", "n", "d">>),
                    !.voiceURI = orElse(@, name)]]
    IN  SelectSeq(named, LAMBDA v : Len(trimString(v.name)) > 0)

\* ensureVoices: both branches for a non-empty list return it as it is
ensureVoices(mapped) ==
    IF Len(mapped) = 0 THEN SYSTEM_DEFAULT_VOICES
    ELSE IF \E i \in 1..Len(mapped) : isSystemDefault(mapped[i]) THEN mapped
    ELSE mapped

\* pool.find(pred)?.name || rest, found being the indexes pred holds at
findName(pool, found, rest) ==
    IF found # {} THEN orElse(pool[Min(found)].name, rest) ELSE rest

\* pickDefaultVoice: the updater given to setSelectedVoice
pickDefaultVoice(available, prev, deviceLang) ==
    IF Len(available) = 0 THEN prev
    ELSE IF prev # <<>> /\ \E i \in 1..Len(available) : available[i].name = prev
    THEN prev
    ELSE LET nonSystemVoices == SelectSeq(available, LAMBDA v : ~isSystemDefault(v))
             pool == IF Len(nonSystemVoices) > 0 THEN nonSystemVoices ELSE available
             dash == {i \in 1..Len(deviceLang) : deviceLang[i] = "-"}
             langPrefix == IF dash = {} THEN deviceLang
                           ELSE SubSeq(deviceLang, 1, Min(dash) - 1)
             exactDevice == {i \in 1..Len(pool) : toLowerCase(pool[i].lang) = deviceLang}
             sameFamily == {i \in 1..Len(pool) :
                               /\ langPrefix # <<>>
                               /\ startsWith(toLowerCase(pool[i].lang), langPrefix)}
             ptVoice == {i \in 1..Len(pool) : startsWith(pool[i].lang, <<"p", "t">>)}
         IN  findName(pool, exactDevice,
                 findName(pool, sameFamily,
                     findName(pool, ptVoice, pool[1].name)))

\* getWebSpeechVoices()
getWebSpeechVoices(hasSynth, list) ==
    IF ~hasSynth THEN <<>>
    ELSE [i \in 1..Len(list) |->
             [list[i] EXCEPT !.voiceURI = orElse(@, list[i].name)]]

\* getNativeVoices(): supported is what getSupportedVoices gave in the end
\* (empty when every attempt failed or there is no plugin), languages what
\* getSupportedLanguages gave, web what speechSynthesis lists
getNativeVoices(supported, languages, hasSynth, web) ==
    IF Len(supported) > 0
    THEN [i \in 1..Len(supported) |->
             Voice(orElse(supported[i].name,
                          orElse(supported[i].voiceURI, <<"V", "o", "i", "c", "e">> \o <<" ">> \o numberString(i))),
                   supported[i].lang,
                   orElse(supported[i].voiceURI, supported[i].name))]
         \o FALLBACK_VOICES
    ELSE IF Len(languages) > 0
    THEN [i \in 1..Len(languages) |->
             Voice(<<"V", "o", "z">> \o <<" ">> \o languages[i], languages[i],
                   <<"l", "a", "n", "g", ":">> \o languages[i])]
         \o FALLBACK_VOICES
    ELSE getWebSpeechVoices(hasSynth, web) \o FALLBACK_VOICES

\* applyVoices(available), the effect not being cancelled
ApplyVoices(available, deviceLang) ==
    /\ voices' = available
    /\ selectedVoice' = pickDefaultVoice(available, selectedVoice, deviceLang)

\* the effect runs at mount: the native path shows the defaults and starts
\* getNativeVoices, the web path without speechSynthesis shows the defaults,
\* the web path with it runs loadVoices() and listens to onvoiceschanged
VoiceEffectRuns ==
    /\ voiceLoad = "not run"
    /\ \E deviceLang \in DeviceLangs :
          IF useNative
          THEN /\ ApplyVoices(SYSTEM_DEFAULT_VOICES, deviceLang)
               /\ voiceLoad' = "loading"
          ELSE IF ~hasSpeechSynthesis
          THEN /\ ApplyVoices(SYSTEM_DEFAULT_VOICES, deviceLang)
               /\ voiceLoad' = "loaded"
          ELSE /\ ApplyVoices(ensureVoices(normalizeVoices(webVoices)), deviceLang)
               /\ voiceLoad' = "listening"
    /\ lastEvent' = Event("voice effect", 0, 0)
    /\ UNCHANGED <<webVoices, webSpeechWaits, onvoiceschanged, hookVars,
                   chunkerVars, cacheVars>>

\* loadNativeVoices after its await: getNativeVoices resolved, the timer of
\* 8000 ms won the race, or the promise rejected
NativeVoicesSettled ==
    /\ voiceLoad = "loading"
    /\ \E deviceLang \in DeviceLangs :
          \/ \E supported \in RawVoiceLists, languages \in LanguageLists :
                ApplyVoices(ensureVoices(normalizeVoices(
                    getNativeVoices(supported, languages, hasSpeechSynthesis,
                                    webVoices))), deviceLang)
          \/ ApplyVoices(ensureVoices(normalizeVoices(SYSTEM_DEFAULT_VOICES)),
                         deviceLang)
          \/ ApplyVoices(SYSTEM_DEFAULT_VOICES, deviceLang)
    /\ voiceLoad' = "loaded"
    /\ lastEvent' = Event("native voices settled", 0, 0)
    /\ UNCHANGED <<webVoices, webSpeechWaits, onvoiceschanged, hookVars,
                   chunkerVars, cacheVars>>

\* the browser's voice list changes; onvoiceschanged runs loadVoices() when
\* the effect has installed it
VoicesChanged ==
    /\ hasSpeechSynthesis
    /\ \E list \in RawVoiceLists \ {webVoices} : \E deviceLang \in DeviceLangs :
          /\ webVoices' = list
          /\ IF voiceLoad = "listening"
             THEN ApplyVoices(ensureVoices(normalizeVoices(list)), deviceLang)
             ELSE UNCHANGED <<voices, selectedVoice>>
    /\ voiceLoad' = voiceLoad
    /\ lastEvent' = Event("voiceschanged", 0, 0)
    /\ UNCHANGED <<webSpeechWaits, onvoiceschanged, hookVars, chunkerVars,
                   cacheVars>>

NextVoices == VoiceEffectRuns \/ NativeVoicesSettled \/ VoicesChanged

\* either platform, with or without the Web Speech API
InitVoices ==
    /\ Init
    /\ displayTexts = Texts
    /\ NoChunkerInput(getMaxChunkChars(useNative))

(***************************************************************************)
(* tryWebSpeech: the wait for the voice catalog                            *)
(***************************************************************************)
MaxWaits == 2

\* doSpeak: without voices it resolves null and issues nothing, with voices
\* it hands one utterance to speechSynthesis.speak
doSpeak(w, catalog) ==
    IF Len(catalog) = 0
    THEN [w EXCEPT !.doSpeakRuns = @ + 1, !.resolvedNull = TRUE]
    ELSE [w EXCEPT !.doSpeakRuns = @ + 1, !.utterances = @ + 1]

\* the promise executor of tryWebSpeech: doSpeak at once when the catalog has
\* voices, else its handler replaces speechSynthesis.onvoiceschanged and a
\* timer of 1500 ms starts
TryWebSpeechCalled ==
    /\ hasSpeechSynthesis
    /\ Len(webSpeechWaits) < MaxWaits
    /\ LET w == [emptyAtCall |-> Len(webVoices) = 0, waited |-> FALSE,
                 timer |-> Len(webVoices) = 0, doSpeakRuns |-> 0,
                 utterances |-> 0, resolvedNull |-> FALSE]
       IN  IF Len(webVoices) = 0
           THEN /\ webSpeechWaits' = Append(webSpeechWaits, w)
                /\ onvoiceschanged' = Len(webSpeechWaits) + 1
           ELSE /\ webSpeechWaits' = Append(webSpeechWaits, doSpeak(w, webVoices))
                /\ onvoiceschanged' = onvoiceschanged
    /\ lastEvent' = Event("tryWebSpeech", 0, 0)
    /\ UNCHANGED <<voices, selectedVoice, voiceLoad, webVoices, hookVars,
                   chunkerVars, cacheVars>>

\* the browser signals voiceschanged: the handler installed last runs
VoicesChangedWhileWaiting ==
    /\ hasSpeechSynthesis
    /\ \E list \in RawVoiceLists \ {webVoices} :
          /\ webVoices' = list
          /\ IF onvoiceschanged # 0 /\ ~webSpeechWaits[onvoiceschanged].waited
             THEN /\ webSpeechWaits' =
                        [webSpeechWaits EXCEPT ![onvoiceschanged] =
                            doSpeak([@ EXCEPT !.waited = TRUE], list)]
                  /\ onvoiceschanged' = 0
             ELSE UNCHANGED <<webSpeechWaits, onvoiceschanged>>
    /\ lastEvent' = Event("voiceschanged while waiting", 0, 0)
    /\ UNCHANGED <<voices, selectedVoice, voiceLoad, hookVars, chunkerVars,
                   cacheVars>>

\* the timer of 1500 ms of one call fires
VoiceWaitTimerFires ==
    /\ \E i \in 1..Len(webSpeechWaits) :
          /\ webSpeechWaits[i].timer
          /\ IF ~webSpeechWaits[i].waited
             THEN /\ webSpeechWaits' =
                        [webSpeechWaits EXCEPT ![i] =
                            doSpeak([@ EXCEPT !.waited = TRUE, !.timer = FALSE],
                                    webVoices)]
                  /\ onvoiceschanged' = 0
             ELSE /\ webSpeechWaits' = [webSpeechWaits EXCEPT ![i].timer = FALSE]
                  /\ onvoiceschanged' = onvoiceschanged
    /\ lastEvent' = Event("voice wait timer", 0, 0)
    /\ UNCHANGED <<voices, selectedVoice, voiceLoad, webVoices, hookVars,
                   chunkerVars, cacheVars>>

NextVoiceWait ==
    TryWebSpeechCalled \/ VoicesChangedWhileWaiting \/ VoiceWaitTimerFires

\* the native platform with the Web Speech API: nativeSpeak falls back on it
InitVoiceWait ==
    /\ InitVoices
    /\ useNative
    /\ hasSpeechSynthesis


(***************************************************************************)
(* Specifications                                                          *)
(***************************************************************************)
NextChunker == Split \/ SplitFromIndex

SpecChunker == InitChunker /\ [][NextChunker]_vars

\* the controller on the native platform, sessions started by speakFromIndex
NextNative ==
    \/ SpeakFromIndex \/ Stop \/ Pause \/ Resume
    \/ NativeStopResolved
    \/ NativeSpeakResolves \/ NativeSpeakRejects
    \/ AnimationFrame

\* the same with nativeSpeak followed strategy by strategy
NextDispatch ==
    \/ SpeakFromIndex \/ Stop \/ Pause \/ Resume
    \/ NativeStopResolved
    \/ StrategySucceeds \/ StrategyFails

\* the same with nativeSpeak followed adapter call by adapter call
NextAdapter ==
    \/ SpeakFromIndex \/ Stop \/ Pause \/ Resume
    \/ NativeStopResolved
    \/ PluginSpeakSettles \/ WebSpeechSettles \/ CloudSpeakSettles

\* one speakFromIndex call, its segments followed through the plugin loop
NextRetry ==
    \/ FirstSpeakFromIndex \/ NativeStopResolved
    \/ PluginSpeakEnds \/ WebSpeechSettles \/ CloudSpeakSettles

\* speak() and stop() with the wake-lock and the foreground service on the
\* native platform
NextResources ==
    \/ Speak \/ Stop
    \/ ForegroundServiceStarted \/ KeepAwakeResolved \/ NativeStopResolved
    \/ AllowSleepResolved \/ ForegroundServiceStopped
    \/ DetachedAllowSleepResolved \/ DetachedForegroundServiceStopped
    \/ NativeSpeakResolves \/ NativeSpeakRejects

\* the controller on the web platform
NextWeb ==
    \/ Speak \/ SpeakFromIndex \/ Stop \/ Pause \/ Resume
    \/ WakeLockRequestResolved \/ WakeLockReleaseResolved
    \/ UtteranceStart \/ UtteranceBoundary \/ UtteranceEnd \/ UtteranceError
    \/ AnimationFrame

\* speak() on either platform with backends that succeed at the first try
NextScenario ==
    \/ Speak
    \/ ForegroundServiceStarted \/ KeepAwakeResolved \/ NativeStopResolved
    \/ WakeLockRequestResolved
    \/ NativeSpeakResolves
    \/ UtteranceStart \/ UtteranceBoundary \/ UtteranceEnd
    \/ AnimationFrame
    \/ DetachedAllowSleepResolved \/ DetachedForegroundServiceStopped

Next ==
    NextNative \/ NextDispatch \/ NextAdapter \/ NextResources \/ NextWeb
        \/ NextChunker \/ NextScenario \/ NextCache \/ NextVoices \/ NextRetry
        \/ NextVoiceWait

Spec == Init /\ [][Next]_vars

SpecNative == InitNative /\ [][NextNative]_vars

SpecDispatch == InitNative /\ [][NextDispatch]_vars

SpecAdapter == InitAdapter /\ [][NextAdapter]_vars

\* the adapter calls that are bounded by a timer settle: plugin.speak after
\* SPEAK_TIMEOUT_MS, the utterance of tryWebSpeech after its safety timer;
\* cloudSpeak has no timer
SpecAdapterLive ==
    /\ SpecAdapter
    /\ WF_vars(NativeStopResolved)
    /\ WF_vars(PluginSpeakSettles)
    /\ WF_vars(WebSpeechSettles)

SpecResources == InitNative /\ [][NextResources]_vars

SpecWeb == InitWeb /\ [][NextWeb]_vars

SpecScenario == InitScenario /\ [][NextScenario]_vars

\* the plugin loop of nativeSpeak, attempt by attempt
SpecRetry == InitNative /\ [][NextRetry]_vars

\* the pre-fetch cache of the cloud backend on its own
SpecCache == InitNative /\ [][NextCache]_vars

\* the voice-loading effect on its own
SpecVoices == InitVoices /\ [][NextVoices]_vars

\* tryWebSpeech calls and the browser's voice catalog
SpecVoiceWait == InitVoiceWait /\ [][NextVoiceWait]_vars

\* the controller in a browser with or without the Web Speech API
SpecBrowser == InitBrowser /\ [][NextWeb]_vars

(***************************************************************************)
(* Properties                                                              *)
(***************************************************************************)
\* the event is a callback of a session: a nativeSpeak settlement, an
\* utterance event or an animation frame
IsCallback(ev) == ev.sid # 0

\* what the hosting UI sees of the controller, and the refs behind it
sessionState == <<progress, activeCharIndex, currentChunkRef, chunksRef,
                  chunkOffsetsRef, speakingRef, pausedRef, isSpeaking, isPaused>>

controllerState == <<generationRef, speakingRef, pausedRef, isSpeaking,
                     isPaused, progress, activeCharIndex, chunksRef,
                     chunkOffsetsRef, currentChunkRef, boundaryFiredRef,
                     onEndLog, toastLog>>

\* C1: generation invalidation.  Once a later speak/speakFromIndex call B has
\* been issued, no callback of an earlier session A changes the progress,
\* the active character, the current segment, the segment and offset lists
\* or the speaking and paused flags, and the session of an earlier call
\* never replaces the session of a later one, whatever the order in which
\* the awaited nativeStop() calls resolve.
C1_GenerationInvalidation ==
    [][/\ liveSid' >= liveSid
       /\ (IsCallback(lastEvent') /\ lastEvent'.sid # lastSid')
             => UNCHANGED sessionState]_vars

\* C2: segment ordering.  At no time are two nativeSpeak calls of the live
\* generation in flight.
C2_OneSegmentCallInFlight ==
    Cardinality({i \in 1..Len(nativeCalls) :
                    nativeCalls[i].gen = generationRef}) <= 1

\* C3: completion exactly once.  The onEnd callback is invoked at most once
\* for a session, whatever pause/resume/stop calls follow its end.
C3_OnEndOnce ==
    \A i, j \in 1..Len(onEndLog) :
        (i # j /\ onEndLog[i] # 0) => onEndLog[i] # onEndLog[j]

\* C4: stop() and speak() increment the generation before anything else: a
\* stop() or speak() call suspended at a platform promise has already
\* incremented the generation it found.
C4_GenerationFirst ==
    \A c \in calls : c.kind \in {"speak", "stop"} => generationRef > c.genAtCall

\* C5: a callback issued under a generation other than the current one is
\* not applied: it leaves the controller's state as it found it, and it
\* leaves the estimator loop of the current generation running.
C5_StaleCallbackIgnored ==
    [][(IsCallback(lastEvent') /\ lastEvent'.gen # generationRef)
          => /\ UNCHANGED controllerState
             /\ (rafLoop # NoLoop /\ rafLoop.gen = generationRef)
                   => rafLoop' = rafLoop]_vars

\* C6: resource symmetry.  The wake-lock acquire calls issued to the
\* platform minus the release calls issued is always 0 or 1.
C6_WakeLockBalance == wakeLockBalance \in {0, 1}

\* C7: after a fatal dispatch failure (nativeSpeak rejected for the live
\* generation and the error was shown) the wake-lock and the foreground
\* service are released, or their release is under way.
C7_ReleasedAfterFatalFailure ==
    (/\ lastEvent.kind = "nativeSpeak rejected"
     /\ lastEvent.gen = generationRef
     /\ ~speakingRef
     /\ calls = {})
        => /\ ~isKeptAwake \/ detached.allowSleep > 0
           /\ ~isRunning \/ detached.stopFg > 0

\* C8: once the controller is Idle with no call in flight, after a natural
\* end, a stop or a text with nothing to speak (no dispatch failure
\* involved), neither the wake-lock nor the foreground service is held.
C8_ReleasedWhenIdle ==
    (/\ calls = {}
     /\ detached = [allowSleep |-> 0, stopFg |-> 0]
     /\ ~speakingRef /\ ~isSpeaking
     /\ toastLog = <<>>)
        => ~isKeptAwake /\ ~screenWakeLock /\ ~isRunning

C10_ErrorOnlyAfterAllBackends ==
    LET available == IF useNative THEN {"plugin", "web", "cloud"}
                     ELSE {"web", "cloud"}
    IN  \A i \in 1..Len(toastLog) :
            \A b \in available :
                \E k \in 1..Len(toastLog[i].tried) : toastLog[i].tried[k] = b

\* C14: acquisition order.  speak() asks for the foreground service only
\* once the wake-lock is held.
C14_WakeLockBeforeForegroundService ==
    \A c \in calls : c.pc = "startForegroundService" => isKeptAwake

\* C15: a speak() call that has reached a suspension point has performed
\* the audio warm-up: the warmed audio element exists.
C15_WarmUpBeforeSuspension ==
    \A c \in calls : c.kind = "speak" => warmedAudioEl

\* C17: in a browser a session never stays in Speaking, with no API call
\* in flight, without an utterance handed to the speech engine.
C17_NoSpeakingWithoutBackendCall ==
    (~useNative /\ speakingRef /\ isSpeaking /\ calls = {})
        => synthQueue # <<>>

\* the segments in order, put end to end
RECURSIVE Concat(_)
Concat(segments) ==
    IF segments = <<>> THEN <<>> ELSE Head(segments) \o Concat(Tail(segments))

\* C20: chunk losslessness.  The segments splitIntoSentences returned for a
\* text with something to speak, put end to end, are the text.
C20_ChunksLossless ==
    (lastEvent = Task /\ trim(inputText)) => Concat(merged) = inputText

\* C11: a canceled outcome of an adapter call (plugin.speak ended by
\* plugin.stop(), a Web Speech 'canceled' or 'interrupted' error, cloud audio
\* stopped by cloudStop()) ends the nativeSpeak call: the segment is neither
\* retried nor handed to the next backend.
C11_CanceledNeverRetriedOrEscalated ==
    lastSettled.outcome = "canceled" => lastEvent.kind # "adapter call failed"

\* C12: the cancellation of an in-flight segment call by stop(), by a
\* superseding speakFromIndex() or by pause() followed by resume() is never
\* reported through the user-facing error path: when the adapter call of a
\* nativeSpeak call ends as canceled, no error toast is shown.
C12_CancellationNeverReported ==
    [][lastSettled'.outcome = "canceled" => toastLog' = toastLog]_vars

\* C13: when the plugin reports that no speech engine is installed, the
\* install prompt (openNativeTtsInstall) is opened at most once in the life
\* of the process, and the plugin adapter then gives the segment up instead
\* of trying plugin.speak again.
C13_InstallPromptOnce ==
    /\ openInstallCalls <= 1
    /\ lastSettled.outcome = "noEngine"
          => \A i \in 1..Len(nativeCalls) : ~inFallback(nativeCalls[i])
                                                \/ Last(nativeCalls[i].tried) # "plugin"

\* C18: when plugin.speak succeeds on an attempt made with the language
\* relaxed after a 'language not supported' failure, the nativeSpeak call
\* resolves at once: the segment completes on the plugin, and neither
\* tryWebSpeech nor cloudSpeak has been called for it.
C18_RelaxedRetrySucceedsOnNative ==
    [][(/\ lastSettled'.backend = "plugin"
        /\ lastSettled'.outcome = "ok"
        /\ lastSettled'.relaxed)
          => \E i \in 1..Len(nativeCalls) :
                /\ nativeCalls[i].relaxed
                /\ nativeCalls[i].tried = <<"plugin">>
                /\ nativeCalls' = RemoveAt(nativeCalls, i)
                /\ lastEvent' = Event("nativeSpeak resolved", nativeCalls[i].gen,
                                      nativeCalls[i].sid)]_vars

\* the live session has completed its only segment on the plugin, on the
\* attempt made with the language relaxed
C18_Witness ==
    /\ lastSettled = [backend |-> "plugin", outcome |-> "ok", relaxed |-> TRUE]
    /\ lastEvent = Event("nativeSpeak resolved", generationRef, liveSid)
    /\ ~isSpeaking
    /\ onEndLog # <<>>
    /\ toastLog = <<>>

\* C19: when plugin.speak reports 'language not supported' again on the
\* attempt made with the language relaxed, the plugin is not tried again:
\* the segment goes to the next backend.
C19_OneRelaxedRetry ==
    (/\ lastSettled.backend = "plugin"
     /\ lastSettled.outcome = "language"
     /\ lastSettled.relaxed)
        => \A i \in 1..Len(nativeCalls) :
              inFallback(nativeCalls[i]) => Last(nativeCalls[i].tried) # "plugin"

\* C16: no hang.  An adapter call that produces no outcome is failed by its
\* timer and the segment is handed on, so a session that is speaking and not
\* paused eventually stops speaking (completed or failed) or is paused.
C16_NoHang == (isSpeaking /\ ~isPaused) ~> (~isSpeaking \/ isPaused)

\* C21: every segment returned by splitIntoSentences is at most as long as
\* the segment limit (a run with no break in it is cut at exactly the limit),
\* also when the break character sits at the index equal to the limit.
C21_ChunkSizeBound ==
    \A i \in 1..Len(merged) : Len(merged[i]) <= maxChunk

\* C22: speakFromIndex(text, k) gives the first segment the offset k, and
\* the offset recorded for every segment is the position in the full text at
\* which the text of that segment begins.
C22_OffsetsLocateSegments ==
    (lastEvent.kind = "speakFromIndex" /\ merged # <<>>)
        => /\ offsets[1] = startCharIndex
           /\ \A i \in 1..Len(merged) :
                 SubSeq(inputText, offsets[i] + 1, offsets[i] + Len(merged[i]))
                     = merged[i]

\* nothing is pending: no API call is suspended, no segment is with a backend
Quiescent == calls = {} /\ nativeCalls = <<>> /\ synthQueue = <<>>

C24_ControllerStates == isPaused => isSpeaking

\* C25: within one playback of a segment the word offsets reported by the
\* estimator never decrease, also across a pause() and resume() of that
\* segment on the web: a frame of the running loop or a resume() that
\* changes the highlighted position moves it forward.
C25_MonotonicHighlight ==
    [][(/\ \/ lastEvent'.kind = "frame" /\ lastEvent'.gen = generationRef
           \/ pausedRef /\ ~pausedRef' /\ ~useNative
        /\ speakingRef /\ speakingRef'
        /\ generationRef' = generationRef
        /\ currentChunkRef' = currentChunkRef
        /\ activeCharIndex' # activeCharIndex)
          => activeCharIndex' > activeCharIndex]_vars

\* C26: on the native platform pause() stops the segment in flight without
\* advancing, the segment index does not change while the controller is
\* paused, and resume() of a paused session calls nativeSpeak again for the
\* segment index that was current when pause() was called, with the position
\* at the start of that segment.
C26_PauseKeepsSegmentIndex ==
    [][/\ (~pausedRef /\ pausedRef')
            => /\ currentChunkRef' = currentChunkRef
               /\ Len(nativeCalls') = Len(nativeCalls)
               /\ \A i \in 1..Len(nativeCalls') : nativeCalls'[i].stopped
       /\ (pausedRef /\ pausedRef') => currentChunkRef' = currentChunkRef
       /\ (/\ pausedRef /\ ~pausedRef'
           /\ generationRef' = generationRef
           /\ speakingRef
           /\ currentChunkRef < Len(chunksRef))
            => /\ currentChunkRef' = currentChunkRef
               /\ Len(nativeCalls') = Len(nativeCalls) + 1
               /\ Last(nativeCalls').chunk = currentChunkRef
               /\ Last(nativeCalls').gen = generationRef
               /\ activeCharIndex' = chunkOffsetsRef[currentChunkRef + 1]]_vars

\* the second segment was paused and resumed: nativeSpeak has been called
\* for it again while the call that pause() stopped is still in flight
C26_Witness ==
    /\ useNative /\ speakingRef /\ ~pausedRef /\ ~isPaused
    /\ lastSid = 1 /\ issued = 3 /\ calls = {}
    /\ currentChunkRef = 1
    /\ Len(nativeCalls) = 2
    /\ nativeCalls[1].chunk = 1 /\ nativeCalls[1].stopped
    /\ nativeCalls[2].chunk = 1 /\ ~nativeCalls[2].stopped
    /\ nativeCalls[2].gen = generationRef
    /\ activeCharIndex = chunkOffsetsRef[2]

\* C27: after pause(), stop() or a superseding speakFromIndex() no tick of
\* the estimator loop of the paused, stopped or superseded segment changes
\* activeCharIndex or progress: a frame of a loop started under another
\* generation, or a frame that runs while the controller is paused, leaves
\* both as they are.
C27_NoTickAfterCancel ==
    [][(/\ lastEvent'.kind = "frame"
        /\ lastEvent'.gen # generationRef \/ pausedRef)
          => /\ activeCharIndex' = activeCharIndex
             /\ progress' = progress]_vars

\* C28: once a word-boundary event has fired for a web segment the estimator
\* loop is cancelled and not started again for that segment, also not by
\* resume(): no animation frame of the current generation moves
\* activeCharIndex to a position inside the current segment while
\* boundaryFiredRef is set.
C28_BoundaryStopsEstimator ==
    [][(/\ ~useNative
        /\ boundaryFiredRef
        /\ lastEvent'.kind = "frame"
        /\ lastEvent'.gen = generationRef
        /\ currentChunkRef < Len(chunksRef)
        /\ activeCharIndex' # activeCharIndex)
          => ~(/\ activeCharIndex' >= chunkOffsetsRef[currentChunkRef + 1]
               /\ activeCharIndex' < chunkOffsetsRef[currentChunkRef + 1]
                                        + chunksRef[currentChunkRef + 1])]_vars

\* the keys the cache holds, and its entry that was inserted first
CacheKeys(map) == {map[i].key : i \in 1..Len(map)}
Oldest(map) ==
    CHOOSE e \in {map[i] : i \in 1..Len(map)} :
        \A i \in 1..Len(map) : e.inserted <= map[i].inserted

\* C29: after every completed preBufferChunk call the cache holds at most 3
\* entries; when a completed call inserts a key into a full cache, the entry
\* that leaves is the one inserted first and every other entry stays; a
\* cloudSpeak cache hit plays the cached buffer and removes its entry and no
\* other.
C29_PreBufferCacheBound ==
    [][LET before == CacheKeys(preBufferCache)
           after == CacheKeys(preBufferCache')
           key == lastCacheOp'.key
       IN  /\ lastEvent'.kind \in {"preBufferChunk returned", "preBufferChunk failed"}
                => /\ Len(preBufferCache') <= 3
                   /\ preBufferCache' = preBufferCache
           /\ lastEvent'.kind = "preBufferChunk resolved"
                => /\ Len(preBufferCache') <= 3
                   /\ Cardinality(after) = Len(preBufferCache')
                   /\ IF key \notin before /\ Len(preBufferCache) = 3
                      THEN after = (before \ {Oldest(preBufferCache).key}) \cup {key}
                      ELSE after = before \cup {key}
           /\ (lastEvent'.kind = "cloudSpeak" /\ lastCacheOp'.hit)
                => /\ key \in before
                   /\ lastCacheOp'.arrayBuffer = mapGet(preBufferCache, key)
                   /\ after = before \ {key}
                   /\ Len(preBufferCache') = Len(preBufferCache) - 1]_vars

\* a fourth key was cached, the first one left, and a cloudSpeak call then
\* took one of the three
C29_Witness ==
    /\ lastEvent.kind = "cloudSpeak" /\ lastCacheOp.hit
    /\ cacheClock = 4
    /\ Len(preBufferCache) = 2
    /\ \A i \in 1..Len(preBufferCache) : preBufferCache[i].inserted > 1

\* C30: after voice loading has run on any path the voice list the hook
\* exposes is non-empty and holds at least one synthetic system-default
\* entry.
C30_VoicesNeverEmpty ==
    voiceLoad # "not run"
        => /\ Len(voices) > 0
           /\ \E i \in 1..Len(voices) : isSystemDefault(voices[i])

\* C39: the completion or rejection of a nativeSpeak call of a superseded
\* session never cancels the estimator loop of the live session: when the
\* animation-frame handle names a loop of the current generation, a
\* settlement that carries another generation leaves the handle as it is.
C39_StaleSettlementKeepsLoop ==
    [][(/\ lastEvent'.kind \in {"nativeSpeak resolved", "nativeSpeak rejected"}
        /\ lastEvent'.gen # generationRef
        /\ rafLoop # NoLoop /\ rafLoop.gen = generationRef)
          => /\ rafRef' = rafRef
             /\ rafLoop' = rafLoop]_vars

\* C40: at any time at most one estimator loop has a frame pending:
\* startWordStepper is never started while an earlier loop is still
\* scheduled.
C40_OneLoopAlive ==
    Cardinality(loops \cup ({rafLoop} \ {NoLoop})) <= 1

\* C31: bounded native retry.  Whatever errors plugin.speak ends with, a
\* nativeSpeak call in the plugin loop is at its fifth attempt at most; an
\* attempt that fails either starts the next attempt of the same call or
\* hands the call to tryWebSpeech, and the fifth attempt that fails hands it
\* to tryWebSpeech: the loop ends after at most 5 plugin.speak calls.
C31_BoundedNativeRetry ==
    [][\A i \in 1..Len(nativeCalls) :
          Last(nativeCalls[i].tried) = "plugin"
            => /\ nativeCalls[i].attempt < 5
               /\ (/\ lastEvent'.kind = "adapter call failed"
                   /\ lastSettled'.backend = "plugin"
                   /\ Len(nativeCalls) = 1)
                     => /\ Len(nativeCalls') = 1
                        /\ \/ /\ Last(nativeCalls'[1].tried) = "plugin"
                              /\ nativeCalls'[1].attempt = nativeCalls[1].attempt + 1
                              /\ nativeCalls'[1].attempt < 5
                           \/ nativeCalls'[1].tried = <<"plugin", "web">>]_vars

\* the fifth plugin.speak call of a segment failed and the segment is with
\* tryWebSpeech
C31_Witness ==
    /\ Len(nativeCalls) = 1
    /\ nativeCalls[1].tried = <<"plugin", "web">>
    /\ adapterFailures = 5
    /\ lastSettled.backend = "plugin"
    /\ lastEvent.kind = "adapter call failed"

\* C32: the calibration block runs only for a segment of the live session
\* that played to completion, and it measures from that segment's own
\* start: the segment carries the current generation, it was not ended by
\* nativeStop(), the controller is not paused, and chunkStartTimeRef was set
\* by the start of that segment.
C32_CalibrationFromLiveSegment ==
    calibrated # NoCalibration
        => /\ calibrated.gen = generationRef
           /\ ~calibrated.stopped
           /\ ~pausedRef
           /\ calibrated.start = [gen |-> calibrated.gen, chunk |-> calibrated.chunk]

\* C33: a tryWebSpeech call made while the voice catalog is empty issues its
\* utterance exactly once: never twice, and once when it has proceeded, on
\* the first voiceschanged signal or when the timer of 1.5 s has expired
C33_UtteranceIssuedOnce ==
    \A i \in 1..Len(webSpeechWaits) :
        webSpeechWaits[i].emptyAtCall
            => /\ webSpeechWaits[i].utterances <= 1
               /\ ~webSpeechWaits[i].timer => webSpeechWaits[i].waited
               /\ webSpeechWaits[i].waited => webSpeechWaits[i].utterances = 1

\* C34: when the last API call issued was a stop() and every call has
\* completed (among them a speak() that was suspended when stop() ran), the
\* controller is Idle: the speaking flag is false, no segment call of the
\* live generation exists and no resource is held
C34_StopWinsOverSuspendedSpeak ==
    (/\ lastSid > 0
     /\ issued > lastSid
     /\ calls = {}
     /\ detached = [allowSleep |-> 0, stopFg |-> 0])
        => /\ ~speakingRef /\ ~isSpeaking
           /\ \A i \in 1..Len(nativeCalls) : nativeCalls[i].gen # generationRef
           /\ ~isKeptAwake /\ ~isRunning

\* C35: resume() called while no session is live and no API call is
\* suspended starts no backend playback, does not invoke the completion
\* callback and changes neither the progress nor the speaking state
C35_ResumeWithoutSessionIsNoOp ==
    [][(/\ lastEvent'.kind = "resume"
        /\ ~speakingRef /\ ~isSpeaking
        /\ calls = {})
          => /\ nativeCalls' = nativeCalls
             /\ synthQueue' = synthQueue
             /\ onEndLog' = onEndLog
             /\ progress' = progress
             /\ speakingRef' = speakingRef
             /\ isSpeaking' = isSpeaking]_vars

\* C36: once stop() has returned (no API call is suspended, the controller
\* is Idle), the nativeSpeak call of the stopped session that is still in
\* flight starts no backend again: it makes no further plugin attempt and
\* moves on to no further strategy
C36_NoBackendStartAfterStop ==
    [][(/\ Len(nativeCalls) = 1
        /\ nativeCalls[1].gen # generationRef
        /\ ~speakingRef /\ ~isSpeaking
        /\ calls = {}
        /\ Len(nativeCalls') = 1
        /\ nativeCalls'[1].gen = nativeCalls[1].gen)
          => /\ nativeCalls'[1].tried = nativeCalls[1].tried
             /\ nativeCalls'[1].attempt = nativeCalls[1].attempt]_vars

\* C37: while nativeSpeak plays a segment through one backend, no backend it
\* tried before for that segment is still playing: the earlier backend call
\* has ended or has been stopped
C37_OneBackendPerSegment ==
    \A i \in 1..Len(nativeCalls) : nativeCalls[i].unstopped = {}

\* C38: once every acquire and release call has completed and the call
\* issued last was a release (the last API call was stop(), whose releases
\* come after the acquires of every earlier speak()), nothing is held: the
\* foreground service is not running, and without isKeptAwake there is no
\* screen wake-lock sentinel, no silent-audio loop and no platform wake-lock
C38_ReleaseIssuedLastWins ==
    (/\ lastSid > 0
     /\ issued > lastSid
     /\ calls = {}
     /\ detached = [allowSleep |-> 0, stopFg |-> 0])
        => /\ ~isRunning
           /\ ~isKeptAwake
                => /\ ~screenWakeLock /\ ~silentAudioActive
                   /\ wakeLockBalance = 0

====
